---------------------------- MODULE Spec2Model ----------------------------
(***************************************************************************)
(* Model of the Mouse-Maze foraging experiment: the seeded layout          *)
(* generator, the collection detector, the round orchestrator and the      *)
(* sample buffers of the agent simulator and the cursor tracker.           *)
(***************************************************************************)
EXTENDS Integers, Sequences, FiniteSets, TLC

(***************************************************************************)
(* Arithmetic on naturals that do not fit a 32-bit integer.  A number is   *)
(* a little-endian sequence of base-2^15 digits.  The layout generator's   *)
(* PRNG multiplies 31-bit numbers in IEEE doubles; the digits let the      *)
(* model compute the exact product and then round it as a double does.     *)
(***************************************************************************)
DigitBase == 2 ^ 15

RECURSIVE ToDigits(_)
ToDigits(n) == IF n < DigitBase THEN <<n>> ELSE <<n % DigitBase>> \o ToDigits(n \div DigitBase)

\* Drop leading (most significant) zero digits, keeping at least one digit.
RECURSIVE Trim(_)
Trim(d) ==
  IF Len(d) > 1 /\ d[Len(d)] = 0 THEN Trim(SubSeq(d, 1, Len(d) - 1)) ELSE d

Digit(d, i) == IF i <= Len(d) THEN d[i] ELSE 0

\* d + n * DigitBase^(i-1), for a small n (n < 2^30).
RECURSIVE BigAddAt(_, _, _)
BigAddAt(d, i, n) ==
  IF n = 0 THEN d
  ELSE IF i > Len(d) THEN BigAddAt(d \o <<0>>, i, n)
  ELSE LET s == d[i] + n
       IN  BigAddAt([d EXCEPT ![i] = s % DigitBase], i + 1, s \div DigitBase)

\* d * n for a small n (n < 2^15).
RECURSIVE BigMulSmallFrom(_, _, _, _)
BigMulSmallFrom(d, n, i, carry) ==
  IF i > Len(d) THEN (IF carry = 0 THEN <<>> ELSE <<carry>>)
  ELSE LET p == d[i] * n + carry
       IN  <<p % DigitBase>> \o BigMulSmallFrom(d, n, i + 1, p \div DigitBase)

BigMulSmall(d, n) == Trim(BigMulSmallFrom(d, n, 1, 0) \o <<0>>)

\* a + b, digit by digit.
RECURSIVE BigAddFrom(_, _, _, _)
BigAddFrom(a, b, i, carry) ==
  IF i > Len(a) /\ i > Len(b) THEN (IF carry = 0 THEN <<>> ELSE <<carry>>)
  ELSE LET s == Digit(a, i) + Digit(b, i) + carry
       IN  <<s % DigitBase>> \o BigAddFrom(a, b, i + 1, s \div DigitBase)

BigAdd(a, b) == Trim(BigAddFrom(a, b, 1, 0) \o <<0>>)

\* a * b, schoolbook: sum over the digits of b of (a * b[j]) shifted.
RECURSIVE BigMulFrom(_, _, _)
BigMulFrom(a, b, j) ==
  IF j > Len(b) THEN <<0>>
  ELSE BigAdd([k \in 1..(j - 1) |-> 0] \o BigMulSmall(a, b[j]), BigMulFrom(a, b, j + 1))

BigMul(a, b) == Trim(BigMulFrom(a, b, 1))

\* -1, 0, 1 as a < b, a = b, a > b (a and b trimmed).
RECURSIVE BigCmpFrom(_, _, _)
BigCmpFrom(a, b, i) ==
  IF i = 0 THEN 0
  ELSE IF a[i] < b[i] THEN -1
  ELSE IF a[i] > b[i] THEN 1
  ELSE BigCmpFrom(a, b, i - 1)

\* (The operands are bound through singleton sets so that each is computed
\* once.)
BigCmp(a, b) ==
  CHOOSE c \in {IF Len(ta) < Len(tb) THEN -1
                ELSE IF Len(ta) > Len(tb) THEN 1
                ELSE BigCmpFrom(ta, tb, Len(ta)) : ta \in {Trim(a)}, tb \in {Trim(b)}} : TRUE

RECURSIVE BitLenSmall(_)
BitLenSmall(n) == IF n = 0 THEN 0 ELSE 1 + BitLenSmall(n \div 2)

BitLen(d) == LET t == Trim(d) IN (Len(t) - 1) * 15 + BitLenSmall(t[Len(t)])

RECURSIVE Pow2(_)
Pow2(k) == IF k = 0 THEN 1 ELSE 2 * Pow2(k - 1)

\* The value of a double holding the real number d: d rounded to 53
\* significant bits, ties to even.  (Products here stay below 2^63, so at
\* most 10 low bits are dropped and they all lie in the first digit.)
RoundToDouble(d) ==
  LET t == Trim(d)
      drop == BitLen(t) - 53
  IN  IF drop <= 0 THEN t
      ELSE LET m == Pow2(drop)
               r == t[1] % m
               q == t[1] \div m
               up == (2 * r > m) \/ (2 * r = m /\ q % 2 = 1)
               floorD == [t EXCEPT ![1] = q * m]
           IN  IF up THEN Trim(BigAddAt(floorD, 1, m)) ELSE floorD

\* The low 31 bits of a number (x & 0x7fffffff for a non-negative x).
Low31(d) == (Digit(d, 3) % 2) * 1073741824 + Digit(d, 2) * DigitBase + Digit(d, 1)


(***************************************************************************)
(* SeededRandom (hash.ts).  The state `seed` is kept as digits because the *)
(* constructor can leave 2^31 in it (Math.abs of the most negative 32-bit  *)
(* integer), which no 32-bit integer holds.  A seed string is the sequence *)
(* of its UTF-16 code units.                                              *)
(***************************************************************************)
LCG_MULTIPLIER == 1103515245
LCG_INCREMENT == 12345
LCG_MASK == 2147483647

\* x & x on a non-negative integer-valued double: x mod 2^32, as the
\* unsigned reading of the resulting 32-bit pattern.
ToUint32(d) == Trim(<<Digit(d, 1), Digit(d, 2), Digit(d, 3) % 4>>)

\* One round of the constructor's loop: seed = ((seed << 5) - seed) + c,
\* then seed & seed.  On the 32-bit pattern u this is (31 * u + c) mod 2^32.
HashFold(u, c) == ToUint32(BigAddAt(BigMulSmall(u, 31), 1, c))

RECURSIVE HashString(_, _)
HashString(u, str) ==
  IF str = <<>> THEN u ELSE HashString(HashFold(u, Head(str)), Tail(str))

\* Math.abs of the signed reading of the 32-bit pattern u.
AbsInt32(u) ==
  IF Digit(u, 3) < 2 THEN Trim(u)
  ELSE Trim(BigAddAt(<<32767 - Digit(u, 1), 32767 - Digit(u, 2), 3 - Digit(u, 3)>>, 1, 1))

\* new SeededRandom(seedStr): Math.abs(hash) || 1.
SeededRandomInit(str) ==
  LET a == AbsInt32(HashString(<<0>>, str))
  IN  IF a = <<0>> THEN <<1>> ELSE a

\* The congruential step in exact integer arithmetic, without the rounding
\* of the product and the sum to doubles.
NextSeedExact(seed) ==
  ToDigits(Low31(BigAddAt(BigMul(seed, ToDigits(LCG_MULTIPLIER)), 1, LCG_INCREMENT)))

\* next(): the new state (seed * 1103515245 + 12345) & 0x7fffffff, with the
\* product and the sum rounded as doubles.  The value next() returns is
\* this state divided by 0x7fffffff.
NextSeed(seed) ==
  ToDigits(Low31(RoundToDouble(BigAddAt(
      RoundToDouble(BigMul(seed, ToDigits(LCG_MULTIPLIER))), 1, LCG_INCREMENT))))

SeedValue(seed) == Low31(seed)

\* floor(value(d) / 0x7fffffff) for a value below 2^45.  With
\* value = hi * 2^31 + lo = hi * 0x7fffffff + (hi + lo), the quotient is hi,
\* plus one when hi + lo reaches 0x7fffffff.
DivMask(d) ==
  LET hi == Digit(d, 3) \div 2 + Digit(d, 4) * 16384
      lo == Low31(d)
  IN  hi + (IF lo >= LCG_MASK - hi THEN 1 ELSE 0)

\* Math.floor(v * n) for v = s / 0x7fffffff.  0x7fffffff is prime, so for
\* 0 < s < 0x7fffffff the product is at least 1/0x7fffffff away from an
\* integer, far more than the rounding error of the double arithmetic.
FloorScaled(s, n) == DivMask(BigMulSmall(ToDigits(s), n))

\* A variant that rounds the scaled value up instead of down.
NextIntCeiling(s, min, max) == FloorScaled(s, max - min + 1) + 1 + min

\* nextInt(min, max) on the value of state s.
NextIntValue(s, min, max) == FloorScaled(s, max - min + 1) + min

\* Math.round(nextFloat(-radius, radius)) on the value of state s:
\* floor(v * 2r - r + 1/2) = -r + floor((2 r s + 2^30 - 1) / 0x7fffffff).
RoundedOffset(s, radius) ==
  DivMask(BigAdd(BigMulSmall(ToDigits(s), 2 * radius), ToDigits(1073741823))) - radius

\* The rejection test of sampleInCircle, x * x + y * y > radius * radius,
\* for x = (2 sx - M) r / M and y = (2 sy - M) r / M: the radius cancels.
AbsCentered(s) == IF s >= LCG_MASK - s THEN s - (LCG_MASK - s) ELSE (LCG_MASK - s) - s
OutsideCircle(sx, sy) ==
  LET ax == ToDigits(AbsCentered(sx))
      ay == ToDigits(AbsCentered(sy))
      m == ToDigits(LCG_MASK)
  IN  BigCmp(BigAdd(BigMul(ax, ax), BigMul(ay, ay)), BigMul(m, m)) = 1


(***************************************************************************)
(* Configuration.  The geometry is the program's; the counts that size the *)
(* state space (rewards, clusters, attempt budgets) are scaled down.       *)
(***************************************************************************)
CANVAS_SIZE == 1000
N_REWARDS == 2
CONCENTRATED_N_CLUSTERS == 1
CONCENTRATED_CLUSTER_RADIUS == 100
CONCENTRATED_MIN_SEPARATION == 300
CONCENTRATED_EDGE_MARGIN == 150
DIFFUSE_EDGE_MARGIN == 50
REWARD_MIN_SPACING == 10
REWARD_EDGE_MARGIN == 30
\* The CLUSTER / NOISE generation of the cursor-mode build.
CLUSTER_K_MIN == 2
CLUSTER_K_MAX == 3
CLUSTER_RADIUS == 80
CLUSTER_MIN_SEPARATION == 250
CLUSTER_EDGE_MARGIN == 150
NOISE_REWARD_EDGE_MARGIN == 50
LEGACY_REWARD_MIN_SPACING == 30
LEGACY_REWARD_EDGE_MARGIN == 50
\* Attempt budgets: maxAttempts per center, maxAttemptsPerReward.
maxAttempts == 2
maxAttemptsPerReward == 2

Conditions == {"CONCENTRATED", "DIFFUSE", "CLUSTER", "NOISE"}
IsLegacy(cond) == cond \in {"CLUSTER", "NOISE"}
IsStructured(cond) == cond \in {"CONCENTRATED", "CLUSTER"}

\* Per-build parameters of the reward loops.
MaxTotalAttempts(cond) ==
  IF IsLegacy(cond) THEN N_REWARDS * maxAttemptsPerReward * 2
  ELSE N_REWARDS * maxAttemptsPerReward * 3
InitialSpacing(cond) == IF IsLegacy(cond) THEN LEGACY_REWARD_MIN_SPACING ELSE REWARD_MIN_SPACING
\* currentSpacing * 0.9 (0.8 in the cursor-mode build), as tenths.
DecayTenths(cond) == IF IsLegacy(cond) THEN 8 ELSE 9
\* Math.max(3, ...) (Math.max(5, ...) in the cursor-mode build).
SpacingFloor(cond) == IF IsLegacy(cond) THEN 5 ELSE 3
\* distance(r, {x, y}) < 3 (< 10 in the cursor-mode build).
TooCloseBelow(cond) == IF IsLegacy(cond) THEN 10 ELSE 3
RewardEdgeMargin(cond) == IF IsLegacy(cond) THEN LEGACY_REWARD_EDGE_MARGIN ELSE REWARD_EDGE_MARGIN
DiffuseMargin(cond) == IF IsLegacy(cond) THEN NOISE_REWARD_EDGE_MARGIN ELSE DIFFUSE_EDGE_MARGIN
ClusterRadius(cond) == IF IsLegacy(cond) THEN CLUSTER_RADIUS ELSE CONCENTRATED_CLUSTER_RADIUS
MinSeparation(cond) == IF IsLegacy(cond) THEN CLUSTER_MIN_SEPARATION ELSE CONCENTRATED_MIN_SEPARATION
CenterMin(cond) ==
  IF IsLegacy(cond) THEN CLUSTER_EDGE_MARGIN + CLUSTER_RADIUS
  ELSE CONCENTRATED_EDGE_MARGIN + CONCENTRATED_CLUSTER_RADIUS
CenterMax(cond) == CANVAS_SIZE - CenterMin(cond)

(***************************************************************************)
(* Geometry helpers of conditionGenerator.ts.                              *)
(***************************************************************************)
DistSq(p1, p2) == (p1.x - p2.x) * (p1.x - p2.x) + (p1.y - p2.y) * (p1.y - p2.y)

Max(a, b) == IF a >= b THEN a ELSE b
Min(a, b) == IF a <= b THEN a ELSE b
clamp(value, min, max) == Max(min, Min(max, value))

\* d * n^k as digits.
RECURSIVE BigTimesPow(_, _, _)
BigTimesPow(d, n, k) ==
  IF k = 0 THEN d
  ELSE CHOOSE r \in {BigTimesPow(e, n, k - 1) : e \in {BigMulSmall(d, n)}} : TRUE

\* currentSpacing is [k |-> number of decays applied, floor |-> whether
\* Math.max has pinned it to the floor]: its value is the floor, or
\* InitialSpacing * (DecayTenths / 10)^k.
\* distance >= currentSpacing, exactly: d2 * 100^k >= S^2 * tenths^(2k).
AtLeastSpacing(d2, sp, cond) ==
  IF sp.floor THEN d2 >= SpacingFloor(cond) * SpacingFloor(cond)
  ELSE BigCmp(BigTimesPow(ToDigits(d2), 100, sp.k),
              BigTimesPow(ToDigits(InitialSpacing(cond) * InitialSpacing(cond)),
                          DecayTenths(cond) * DecayTenths(cond), sp.k)) >= 0

respectsSpacing(pos, existing, sp, cond) ==
  \A i \in 1..Len(existing) : AtLeastSpacing(DistSq(pos, existing[i]), sp, cond)

\* currentSpacing = Math.max(floor, currentSpacing * decay).
ShrinkSpacing(sp, cond) ==
  IF sp.floor THEN sp
  ELSE IF BigCmp(BigTimesPow(ToDigits(InitialSpacing(cond)), DecayTenths(cond), sp.k + 1),
                 BigTimesPow(ToDigits(SpacingFloor(cond)), 10, sp.k + 1)) <= 0
       THEN [k |-> 0, floor |-> TRUE]
       ELSE [k |-> sp.k + 1, floor |-> FALSE]

tooClose(pos, existing, cond) ==
  \E i \in 1..Len(existing) :
     DistSq(existing[i], pos) < TooCloseBelow(cond) * TooCloseBelow(cond)


(***************************************************************************)
(* State.                                                                  *)
(***************************************************************************)
VARIABLES
  \* --- layout generator (conditionGenerator.ts), one record per call ---
  gen,          \* call id -> the locals of one generateRoundLayout call
  rngMode,      \* how next() is modelled: "seeded", "stream", "any"
  stream,       \* under "stream": the periodic sequence next() walks through
  now,          \* performance.now() / the wall clock, in sample intervals
  \* --- the round component (ForagingCanvas / GameCanvas) and its hooks ---
  mode,         \* "agent": ForagingCanvas + useAgentPhysics;
                \* "cursor": GameCanvas + useRewardDetection + useMouseTracking
  mounted,      \* the component is on screen
  st,           \* state and props as of the last committed render
  nx,           \* the same with the state updates not yet rendered
  isEndingRef, isStartingRef, roundStartTimeRef,
  collectedIds, \* collectedIdsRef / the detection hook's collectedIds
  rewardsRef,
  startTimeRef, \* useGameTimer's startTimeRef
  endInterval,  \* the end countdown's setInterval is registered
  startTimeout, \* the start countdown's setTimeout is registered
  agentRef,     \* the agent's position (agent) / currentPosition (cursor)
  isMouseInCanvas,
  lastSampleTimeRef,
  sampleBuffer,
  appTasks,     \* handleRoundComplete calls suspended at an await
  \* --- what the component has handed to persistence, in order ---
  events,       \* saveEvent calls
  rounds,       \* saveRound calls
  batches,      \* onSampleBatch calls
  \* --- counters kept for the properties ---
  allCollectedCalls,  \* all-collected notifications since the last round init
  sampled,      \* samples created so far
  timerLog,     \* stop() called since the last start(), and the kind of the
                \* last onTimeUp call since then
  \* --- the agent simulator on its own (useAgentPhysics) ---
  agent,        \* agentRef.current: x, y, heading, velocity
  wrapBoundaries,
  ticks,        \* frames run so far
  sim,          \* the simulator's other refs and state, and what it has emitted
  \* --- maze training (MazeCanvas) ---
  prevPositionRef,
  isCompletedRef,
  collisionCount,
  mazeEvents,   \* saveEvent calls of the maze phase
  \* --- one SeededRandom object on its own (hash.ts) ---
  prngSeed,     \* this.seed, as digits
  lastCall,     \* the last call on the object and what it returned
  calls,        \* calls made so far
  \* --- the statistics of one round (statsCalculator.ts) ---
  statsCall,    \* the arguments: movements, events, durationMs, rewardsCollected
  roundStats    \* <<>>, or the one RoundStats computed from statsCall

genVars == <<gen, rngMode, stream>>
physicsVars == <<agent, wrapBoundaries, ticks, sim>>
mazeVars == <<prevPositionRef, isCompletedRef, collisionCount, mazeEvents>>
prngVars == <<prngSeed, lastCall, calls>>
statsVars == <<statsCall, roundStats>>
unitVars == <<physicsVars, mazeVars, prngVars, statsVars>>
roundVars ==
  <<mode, mounted, st, nx, isEndingRef, isStartingRef, roundStartTimeRef,
    collectedIds, rewardsRef, startTimeRef, endInterval, startTimeout, agentRef,
    isMouseInCanvas, lastSampleTimeRef, sampleBuffer, appTasks, events, rounds,
    batches, allCollectedCalls, sampled, timerLog>>
vars == <<gen, rngMode, stream, now, roundVars, unitVars>>

\* Bound on the clock.
MaxTime == 3

(***************************************************************************)
(* The layout generator as a state machine: one step per loop iteration.   *)
(* Each call's record holds rng (the SeededRandom state), centers, rewards *)
(* and the loop counters of the reward generators.                         *)
(*                                                                         *)
(* next() is modelled three ways.  "seeded" is SeededRandom itself.        *)
(* "stream" is an arbitrary deterministic generator: a periodic sequence   *)
(* fixed at the start, the state being the position in it.  "any" is an    *)
(* oracle: each draw is any of the sample values.                          *)
(***************************************************************************)
\* Period of the "stream" generator.
StreamPeriod == 3

\* PRNG states whose values the oracle draws: next() near 0 and 0.5.
RngSamples == {1, 1073741824}
\* PRNG states whose values a stream is made of: next() near 0.5 and 0.52.
StreamSamples == {1073741824, 1116691496}

\* PRNG states whose values sampleInCircle's accepted pair is drawn from under
\* the oracle: offsets of -radius, 0 and a twentieth of the radius.
CircleSamples == RngSamples \cup {1127428915}

\* One next() call: the outcomes [rng |-> new state, v |-> the state whose
\* value is returned].
DrawOutcomes(rng) ==
  CASE rngMode = "seeded" ->
         {[rng |-> NextSeed(rng), v |-> SeedValue(NextSeed(rng))]}
    [] rngMode = "stream" ->
         {[rng |-> <<(rng[1] + 1) % StreamPeriod>>, v |-> stream[rng[1] + 1]]}
    [] OTHER -> {[rng |-> rng, v |-> v] : v \in RngSamples}

\* A generator object shared by the calls instead of one per call: the
\* second call continues where the first one stopped.
SharedRng(seedStr) ==
  IF 1 \in DOMAIN gen /\ gen[1].pc = "done" THEN gen[1].rng
  ELSE IF rngMode = "seeded" THEN SeededRandomInit(seedStr) ELSE <<0>>

\* new SeededRandom(seedStr).
NewRng(seedStr) == IF rngMode = "seeded" THEN SeededRandomInit(seedStr) ELSE <<0>>

\* rng.nextInt(min, max) twice, for x then y: the outcomes [x, y, rng].
IntPairOutcomes(rng, min, max) ==
  UNION {{[x |-> NextIntValue(d1.v, min, max),
           y |-> NextIntValue(d2.v, min, max),
           rng |-> d2.rng] : d2 \in DrawOutcomes(d1.rng)} : d1 \in DrawOutcomes(rng)}

\* sampleInCircle's do-while under a deterministic generator: draw pairs
\* until one falls inside the circle.
RECURSIVE CircleLoop(_)
CircleLoop(rng) ==
  LET d1 == CHOOSE d \in DrawOutcomes(rng) : TRUE
      d2 == CHOOSE d \in DrawOutcomes(d1.rng) : TRUE
  IN  IF OutsideCircle(d1.v, d2.v) THEN CircleLoop(d2.rng)
      ELSE [sx |-> d1.v, sy |-> d2.v, rng |-> d2.rng]

\* The pairs of oracle draws that end sampleInCircle's do-while: those
\* that fall inside the circle.
AcceptedPairs == {q \in CircleSamples \X CircleSamples : ~OutsideCircle(q[1], q[2])}

\* The accepted draws of sampleInCircle.  Under "any" the rejected draws
\* before the accepted pair leave no trace, so only that pair is chosen.
CircleDraws(rng) ==
  IF rngMode = "any"
  THEN {[sx |-> pr[1], sy |-> pr[2], rng |-> rng] : pr \in AcceptedPairs}
  ELSE {CircleLoop(rng)}

\* Math.round(rng.nextFloat(-radius, radius)) for the oracle's draws and the
\* two cluster radii, computed once.
OracleOffsets ==
  [s \in CircleSamples |->
     [radius \in {CLUSTER_RADIUS, CONCENTRATED_CLUSTER_RADIUS} |-> RoundedOffset(s, radius)]]

\* The rounded offset of one accepted draw.
CircleOffset(s, radius) ==
  IF rngMode = "any" THEN OracleOffsets[s][radius] ELSE RoundedOffset(s, radius)

\* sampleInCircle(rng, centerX, centerY, radius): the outcomes [x, y, rng].
sampleInCircle(seed, center, radius) ==
  {[x |-> center.x + CircleOffset(d.sx, radius),
    y |-> center.y + CircleOffset(d.sy, radius),
    rng |-> d.rng] : d \in CircleDraws(seed)}

\* A variant that samples candidates without regard to the edge margin.
CandidatesAnywhere(g, center) ==
  IF IsStructured(g.cond)
  THEN sampleInCircle(g.rng, [x |-> 0, y |-> 0], ClusterRadius(g.cond))
  ELSE IntPairOutcomes(g.rng, 0, CANVAS_SIZE)

\* One candidate reward position of the reward loops, clamped as the code
\* clamps it: inside the cluster of `center` for the structured conditions,
\* anywhere within the margin for the diffuse ones.
Candidates(g, center) ==
  IF IsStructured(g.cond)
  THEN {[x |-> clamp(c.x, RewardEdgeMargin(g.cond), CANVAS_SIZE - RewardEdgeMargin(g.cond)),
         y |-> clamp(c.y, RewardEdgeMargin(g.cond), CANVAS_SIZE - RewardEdgeMargin(g.cond)),
         rng |-> c.rng] : c \in sampleInCircle(g.rng, center, ClusterRadius(g.cond))}
  ELSE IntPairOutcomes(g.rng, DiffuseMargin(g.cond), CANVAS_SIZE - DiffuseMargin(g.cond))

\* A variant that numbers the rewards from 1.
RewardFromOne(id, c) == [id |-> id + 1, x |-> c.x, y |-> c.y, collected |-> FALSE]

\* { id, x, y, collected: false }.
Reward(id, c) == [id |-> id, x |-> c.x, y |-> c.y, collected |-> FALSE]

\* const targetCount = rewardsPerCluster + (clusterIdx < extraRewards ? 1 : 0)
\* (clusterIdx counted from 0).
targetCount(g) ==
  (N_REWARDS \div Len(g.centers))
    + (IF g.clusterIdx < N_REWARDS % Len(g.centers) THEN 1 ELSE 0)

\* The cluster the next reward is sampled in: the cluster loop's current
\* one (CONCENTRATED) or round-robin i % centers.length (CLUSTER).
CurrentCenter(g) ==
  IF g.cond = "CONCENTRATED" /\ g.pc # "fallback" THEN g.centers[g.clusterIdx + 1]
  ELSE g.centers[(Len(g.rewards) % Len(g.centers)) + 1]

\* A variant of the loop conditions without the budget of attempts: the
\* spacing loops go on until every reward is placed.
RECURSIVE LoopHeadNoBudget(_)
LoopHeadNoBudget(g) ==
  LET toFallback ==
        [g EXCEPT !.pc = IF Len(g.rewards) < N_REWARDS THEN "fallback" ELSE "done"]
  IN  IF g.cond = "CONCENTRATED"
      THEN IF g.clusterIdx >= Len(g.centers) THEN toFallback
           ELSE IF g.clusterRewards < targetCount(g)
                THEN [g EXCEPT !.pc = "strict", !.attempts = 0]
                ELSE LoopHeadNoBudget([g EXCEPT !.clusterIdx = @ + 1, !.clusterRewards = 0])
      ELSE IF Len(g.rewards) < N_REWARDS
           THEN [g EXCEPT !.pc = "strict", !.attempts = 0]
           ELSE toFallback

\* Evaluate the loop conditions after an iteration of the reward loop and
\* name the loop the call is in next.
RECURSIVE LoopHead(_)
LoopHead(g) ==
  LET toFallback ==
        [g EXCEPT !.pc = IF Len(g.rewards) < N_REWARDS THEN "fallback" ELSE "done"]
  IN  IF g.cond = "CONCENTRATED"
      THEN IF g.clusterIdx >= Len(g.centers) THEN toFallback
           ELSE IF g.clusterRewards < targetCount(g)
                   /\ g.totalAttempts < MaxTotalAttempts(g.cond)
                THEN [g EXCEPT !.pc = "strict", !.attempts = 0]
                ELSE LoopHead([g EXCEPT !.clusterIdx = @ + 1, !.clusterRewards = 0])
      ELSE IF Len(g.rewards) < N_REWARDS /\ g.totalAttempts < MaxTotalAttempts(g.cond)
           THEN [g EXCEPT !.pc = "strict", !.attempts = 0]
           ELSE toFallback

\* Enter the reward generator with the centers chosen.
StartRewards(g) ==
  LoopHead([g EXCEPT !.clusterIdx = 0, !.clusterRewards = 0, !.attempts = 0,
                     !.totalAttempts = 0,
                     !.currentSpacing = [k |-> 0, floor |-> FALSE]])

NewCall(cond, seedStr) ==
  [cond |-> cond, seedStr |-> seedStr, pc |-> "new", rng |-> <<0>>, k |-> 0,
   centers |-> <<>>, rewards |-> <<>>, clusterIdx |-> 0, clusterRewards |-> 0,
   attempts |-> 0, totalAttempts |-> 0,
   currentSpacing |-> [k |-> 0, floor |-> FALSE]]

\* generateRoundLayout up to the first loop: construct the PRNG from the
\* seed string; CLUSTER draws k, CONCENTRATED uses the configured count.
generateRoundLayout(r) ==
  /\ gen[r].pc = "new"
  /\ LET g == gen[r]
         seed0 == NewRng(g.seedStr)
     IN  \/ /\ g.cond = "CLUSTER"
            /\ \E d \in DrawOutcomes(seed0) :
                 gen' = [gen EXCEPT ![r] =
                    [g EXCEPT !.rng = d.rng, !.pc = "centers", !.attempts = 0,
                              !.k = NextIntValue(d.v, CLUSTER_K_MIN, CLUSTER_K_MAX)]]
         \/ /\ g.cond = "CONCENTRATED"
            /\ gen' = [gen EXCEPT ![r] =
                    [g EXCEPT !.rng = seed0, !.pc = "centers", !.attempts = 0,
                              !.k = CONCENTRATED_N_CLUSTERS]]
         \/ /\ ~IsStructured(g.cond)
            /\ gen' = [gen EXCEPT ![r] = StartRewards([g EXCEPT !.rng = seed0])]
  /\ UNCHANGED <<rngMode, stream, now, roundVars, unitVars>>

\* After a center is pushed: the next center, or the reward generator.
AfterCenter(g) ==
  IF Len(g.centers) >= g.k THEN StartRewards(g) ELSE [g EXCEPT !.attempts = 0]

\* One iteration of `while (attempts < maxAttempts && !placed)` of
\* generateConcentratedCenters / generateClusterCenters.
CenterAttempt(r) ==
  /\ gen[r].pc = "centers"
  /\ gen[r].attempts < maxAttempts
  /\ LET g == gen[r]
     IN  \E c \in IntPairOutcomes(g.rng, CenterMin(g.cond), CenterMax(g.cond)) :
           LET isValid == \A i \in 1..Len(g.centers) :
                  DistSq(c, g.centers[i]) >= MinSeparation(g.cond) * MinSeparation(g.cond)
           IN  gen' = [gen EXCEPT ![r] =
                 IF isValid
                 THEN AfterCenter([g EXCEPT !.rng = c.rng,
                                            !.centers = Append(@, [x |-> c.x, y |-> c.y])])
                 ELSE [g EXCEPT !.rng = c.rng, !.attempts = @ + 1]]
  /\ UNCHANGED <<rngMode, stream, now, roundVars, unitVars>>

\* `if (!placed)`: the unconditional placement of a center.
CenterFallback(r) ==
  /\ gen[r].pc = "centers"
  /\ gen[r].attempts >= maxAttempts
  /\ LET g == gen[r]
     IN  \E c \in IntPairOutcomes(g.rng, CenterMin(g.cond), CenterMax(g.cond)) :
           gen' = [gen EXCEPT ![r] =
             AfterCenter([g EXCEPT !.rng = c.rng,
                                   !.centers = Append(@, [x |-> c.x, y |-> c.y])])]
  /\ UNCHANGED <<rngMode, stream, now, roundVars, unitVars>>

\* One iteration of `while (attempts < maxAttemptsPerReward && !placed)`:
\* the strict tier.
StrictAttempt(r) ==
  /\ gen[r].pc = "strict"
  /\ LET g == gen[r]
     IN  \E c \in Candidates(g, IF IsStructured(g.cond) THEN CurrentCenter(g) ELSE [x |-> 0, y |-> 0]) :
           gen' = [gen EXCEPT ![r] =
             IF respectsSpacing(c, g.rewards, g.currentSpacing, g.cond)
             THEN LoopHead([g EXCEPT !.rng = c.rng,
                                     !.rewards = Append(@, Reward(Len(g.rewards), c)),
                                     !.clusterRewards = @ + 1,
                                     !.attempts = @ + 1,
                                     !.totalAttempts = @ + 1])
             ELSE [g EXCEPT !.rng = c.rng,
                            !.attempts = @ + 1,
                            !.totalAttempts = @ + 1,
                            !.pc = IF g.attempts + 1 < maxAttemptsPerReward
                                   THEN "strict" ELSE "relaxed"]]
  /\ UNCHANGED <<rngMode, stream, now, roundVars, unitVars>>

\* `if (!placed)`: shrink currentSpacing and place once against the fixed
\* "too close" threshold: the relaxed tier.
RelaxedAttempt(r) ==
  /\ gen[r].pc = "relaxed"
  /\ LET g == gen[r]
     IN  \E c \in Candidates(g, IF IsStructured(g.cond) THEN CurrentCenter(g) ELSE [x |-> 0, y |-> 0]) :
           LET shrunk == [g EXCEPT !.rng = c.rng,
                                   !.currentSpacing = ShrinkSpacing(@, g.cond),
                                   !.totalAttempts = @ + 1]
           IN  gen' = [gen EXCEPT ![r] =
                 IF ~tooClose(c, g.rewards, g.cond)
                 THEN LoopHead([shrunk EXCEPT !.rewards = Append(@, Reward(Len(g.rewards), c)),
                                              !.clusterRewards = @ + 1])
                 ELSE LoopHead(shrunk)]
  /\ UNCHANGED <<rngMode, stream, now, roundVars, unitVars>>

\* The reward generator without its final fallback loop.
FallbackSkip(r) ==
  /\ gen[r].pc = "fallback"
  /\ gen' = [gen EXCEPT ![r] = [gen[r] EXCEPT !.pc = "done"]]
  /\ UNCHANGED <<rngMode, stream, now, roundVars, unitVars>>

\* One iteration of the final fallback `while (rewards.length < N_REWARDS)`.
FallbackPlace(r) ==
  /\ gen[r].pc = "fallback"
  /\ LET g == gen[r]
     IN  \E c \in Candidates(g, IF IsStructured(g.cond) THEN CurrentCenter(g) ELSE [x |-> 0, y |-> 0]) :
           gen' = [gen EXCEPT ![r] =
             [g EXCEPT !.rng = c.rng,
                       !.rewards = Append(@, Reward(Len(g.rewards), c)),
                       !.pc = IF Len(g.rewards) + 1 < N_REWARDS THEN "fallback" ELSE "done"]]
  /\ UNCHANGED <<rngMode, stream, now, roundVars, unitVars>>

\* The value generateRoundLayout returns once the call is done.
RoundLayout(g) ==
  [rewards |-> g.rewards,
   clusterParams |-> IF IsStructured(g.cond) THEN [k |-> g.k, centers |-> g.centers]
                     ELSE [k |-> 0, centers |-> <<>>]]

(***************************************************************************)
(* The round component.  ForagingCanvas (agent mode) and GameCanvas        *)
(* (cursor mode) share their structure: state set through React, refs      *)
(* written at once, and callbacks that close over the state of the render  *)
(* that created them.  A state update is pending in nx until Render        *)
(* commits it to st and runs the effects; every callback reads st.         *)
(* Time is counted in sample intervals.                                    *)
(***************************************************************************)
HIT_RADIUS == 5
LEGACY_HIT_RADIUS == 35
N_ROUNDS == 2
TIME_LIMIT == 2
SAMPLE_INTERVAL == 1
END_COUNTDOWN_SECONDS == 1
START_COUNTDOWN_SECONDS == 1
batchSize == 2
\* Bounds on the samples created and on the pointer enter/leave events.
MaxSamples == 2
MaxPointerEvents == 1

hitRadius == IF mode = "cursor" THEN LEGACY_HIT_RADIUS ELSE HIT_RADIUS

\* Where rewards lie and where the agent or the cursor can be, on the line
\* y = AGENT_Y.  Successive reward spots are RewardGap apart, the minimum
\* spacing the generator enforces before it relaxes it (a distance equal
\* to the spacing is accepted); the agent or cursor can be within the hit
\* radius of the
\* first spot only, midway between the first two, or away from all.
AGENT_Y == CANVAS_SIZE \div 2
RewardGap == IF mode = "cursor" THEN LEGACY_REWARD_MIN_SPACING ELSE REWARD_MIN_SPACING
RewardSpot(i) == [x |-> 100 + RewardGap * (i - 1), y |-> AGENT_Y]
AgentSpots ==
  {[x |-> 100 + (RewardGap \div 2) - hitRadius, y |-> AGENT_Y],
   [x |-> 100 + (RewardGap \div 2), y |-> AGENT_Y],
   [x |-> CANVAS_SIZE \div 2, y |-> AGENT_Y]}
AgentStart == [x |-> CANVAS_SIZE \div 2, y |-> AGENT_Y]
NoPosition == [x |-> 0 - 1, y |-> 0 - 1]

\* generateRoundLayout(condition, `${participantId}|${roundIndex}`) as the
\* component sees it: N_REWARDS rewards with ids 0..N_REWARDS-1 in order,
\* none collected, a function of the round index.  Even rounds fill the
\* spots left to right, odd rounds right to left.
LayoutOf(roundIndex) ==
  [i \in 1..N_REWARDS |->
     Reward(i - 1, RewardSpot(IF roundIndex % 2 = 0 THEN i ELSE N_REWARDS + 1 - i))]

\* useState's initial values, and the props of the first round.
InitialState ==
  [isStarted |-> FALSE, isRoundEnded |-> FALSE, pendingRound |-> <<>>,
   endCountdown |-> END_COUNTDOWN_SECONDS, startCountdown |-> <<>>,
   isRunning |-> FALSE, roundStartTime |-> 0,
   roundIndex |-> 0, completedRounds |-> 0, showEndLevelModal |-> FALSE,
   screen |-> "game",
   marked |-> {}]   \* the ids the rewards state shows as collected

\* isActive: isStarted && !isRoundEnded.
isActive(s) == s.isStarted /\ ~s.isRoundEnded

\* Everything a callback can write, as one record, so that the callbacks
\* compose as the code's statements do.
Env ==
  [nx |-> nx, isEndingRef |-> isEndingRef, isStartingRef |-> isStartingRef,
   roundStartTimeRef |-> roundStartTimeRef, collectedIds |-> collectedIds,
   rewardsRef |-> rewardsRef, startTimeRef |-> startTimeRef,
   endInterval |-> endInterval, startTimeout |-> startTimeout,
   agentRef |-> agentRef, isMouseInCanvas |-> isMouseInCanvas,
   lastSampleTimeRef |-> lastSampleTimeRef, sampleBuffer |-> sampleBuffer,
   appTasks |-> appTasks, events |-> events, rounds |-> rounds,
   batches |-> batches, allCollectedCalls |-> allCollectedCalls,
   sampled |-> sampled, timerLog |-> timerLog,
   eager |-> FALSE]   \* not state: whether React runs the next updater at once

Install(e) ==
  /\ nx' = e.nx
  /\ isEndingRef' = e.isEndingRef
  /\ isStartingRef' = e.isStartingRef
  /\ roundStartTimeRef' = e.roundStartTimeRef
  /\ collectedIds' = e.collectedIds
  /\ rewardsRef' = e.rewardsRef
  /\ startTimeRef' = e.startTimeRef
  /\ endInterval' = e.endInterval
  /\ startTimeout' = e.startTimeout
  /\ agentRef' = e.agentRef
  /\ isMouseInCanvas' = e.isMouseInCanvas
  /\ lastSampleTimeRef' = e.lastSampleTimeRef
  /\ sampleBuffer' = e.sampleBuffer
  /\ appTasks' = e.appTasks
  /\ events' = e.events
  /\ rounds' = e.rounds
  /\ batches' = e.batches
  /\ allCollectedCalls' = e.allCollectedCalls
  /\ sampled' = e.sampled
  /\ timerLog' = e.timerLog

GameEvent(eventType, roundIndex, timestampMs, rewardIndex, total) ==
  [eventType |-> eventType, roundIndex |-> roundIndex, timestampMs |-> timestampMs,
   rewardIndex |-> rewardIndex, totalRewardsCollected |-> total]

\* useGameTimer: start() and stop().
TimerStarted == [stopped |-> FALSE, timeUp |-> "none"]
startTimer(e) ==
  [e EXCEPT !.startTimeRef = now, !.nx.isRunning = TRUE, !.timerLog = TimerStarted]
stopTimer(e) == [e EXCEPT !.nx.isRunning = FALSE, !.timerLog.stopped = TRUE]

\* A variant that logs every finalization as round_end.
AlwaysRoundEnd(reason) == "round_end"

\* eventType: reason === 'timeout' ? 'timeout' : 'round_end'.
TerminalEventType(reason) == IF reason = "timeout" THEN "timeout" ELSE "round_end"

\* handleRoundEnd(reason, finalScore), called from a callback of the render
\* s; finalScore is <<>> when the argument is omitted.
handleRoundEnd(e, s, reason, finalScore) ==
  IF e.isEndingRef THEN e
  ELSE
    LET durationMs == now - e.roundStartTimeRef
        authoritativeScore ==
          IF finalScore # <<>> THEN finalScore[1] ELSE Cardinality(e.collectedIds)
        endEvent == GameEvent(TerminalEventType(reason),
                              s.roundIndex, durationMs, 0 - 1, authoritativeScore)
        round == [roundIndex |-> s.roundIndex, durationMs |-> durationMs,
                  rewardsCollected |-> authoritativeScore, endReason |-> reason,
                  resourcePositions |-> e.rewardsRef]
        e1 == stopTimer([e EXCEPT !.isEndingRef = TRUE])
    IN  [e1 EXCEPT !.nx.isRoundEnded = TRUE,
                   !.nx.endCountdown = END_COUNTDOWN_SECONDS,
                   !.events = Append(@, endEvent),
                   !.rounds = Append(@, round),
                   !.nx.pendingRound = <<round>>]

\* The all-collected notification: handleRoundEnd('all_rewards', N_REWARDS)
\* in ForagingCanvas, handleAllRewardsCollected in GameCanvas.
onAllRewardsCollected(e, s) ==
  LET e1 == [e EXCEPT !.allCollectedCalls = @ + 1]
  IN  handleRoundEnd(IF mode = "cursor" THEN stopTimer(e1) ELSE e1,
                     s, "all_rewards", <<N_REWARDS>>)

\* A variant that trusts the collected flag of the reward object, which the
\* ref never updates, instead of the id set.
IsCollectedByFlag(e, reward) == reward.collected

\* collectedIds.has(reward.id).
IsCollected(e, reward) == reward.id \in e.collectedIds

\* A variant that notifies one reward early.
ReachedAllEarly(newCount) == newCount >= N_REWARDS - 1

\* newCount >= N_REWARDS.
ReachedAll(newCount) == newCount >= N_REWARDS

\* prev.map(r => r.id === id ? { ...r, collected: true } : r) for the ids.
MarkCollected(rewards, ids) ==
  [i \in DOMAIN rewards |->
     [rewards[i] EXCEPT !.collected = @ \/ rewards[i].id \in ids]]

\* setRewards(prev => { ...; rewardsRef.current = updated; return updated })
\* for one collected reward.  The update is queued; React runs the updater
\* at once only when the component has no update pending (and then not
\* always), otherwise during the next render.  Any later update of the same
\* call finds this one pending.
setRewards(e, s, id) ==
  LET queued == [e EXCEPT !.nx.marked = @ \cup {id}, !.eager = FALSE]
  IN  IF e.eager /\ e.nx = s
      THEN [queued EXCEPT !.rewardsRef = MarkCollected(@, s.marked \cup {id})]
      ELSE queued

\* A variant of the scan that stops at the first hit.
RECURSIVE ScanRewardsFirstHit(_, _, _, _, _)
ScanRewardsFirstHit(e, s, i, position, timestampMs) ==
  IF i > Len(e.rewardsRef) THEN e
  ELSE
    LET reward == e.rewardsRef[i]
    IN  IF reward.id \in e.collectedIds
        THEN ScanRewardsFirstHit(e, s, i + 1, position, timestampMs)
        ELSE IF DistSq(position, reward) <= hitRadius * hitRadius
        THEN LET marked == [e EXCEPT !.collectedIds = @ \cup {reward.id}]
                 newCount == Cardinality(marked.collectedIds)
                 emitted == [setRewards(marked, s, reward.id) EXCEPT !.events = Append(@,
                               GameEvent("reward_hit", s.roundIndex, timestampMs,
                                         reward.id, newCount))]
             IN  IF newCount >= N_REWARDS THEN onAllRewardsCollected(emitted, s)
                 ELSE emitted
        ELSE ScanRewardsFirstHit(e, s, i + 1, position, timestampMs)

\* The scan `for (const reward of rewards)` from the i-th reward on: skip
\* a collected reward; on a hit add the id to the set first, then emit the
\* reward_hit event with the new size of the set; stop after the
\* all-collected notification.
RECURSIVE ScanRewards(_, _, _, _, _)
ScanRewards(e, s, i, position, timestampMs) ==
  IF i > Len(e.rewardsRef) THEN e
  ELSE
    LET reward == e.rewardsRef[i]
    IN  IF IsCollected(e, reward) THEN ScanRewards(e, s, i + 1, position, timestampMs)
        ELSE IF DistSq(position, reward) <= hitRadius * hitRadius
        THEN LET marked == [e EXCEPT !.collectedIds = @ \cup {reward.id}]
                 newCount == Cardinality(marked.collectedIds)
                 emitted == [setRewards(marked, s, reward.id) EXCEPT !.events = Append(@,
                               GameEvent("reward_hit", s.roundIndex, timestampMs,
                                         reward.id, newCount))]
             IN  IF ReachedAll(newCount) THEN onAllRewardsCollected(emitted, s)
                 ELSE ScanRewards(emitted, s, i + 1, position, timestampMs)
        ELSE ScanRewards(e, s, i + 1, position, timestampMs)

\* ForagingCanvas.handlePositionUpdate(agent) of the render s.
handlePositionUpdate(e, s, position) ==
  IF ~s.isStarted \/ s.isRoundEnded THEN e
  ELSE ScanRewards(e, s, 1, position, now - e.roundStartTimeRef)

\* useRewardDetection.checkPosition(position) of the render s.
checkPosition(e, s, position) ==
  IF Len(e.rewardsRef) = 0 \/ e.roundStartTimeRef = 0 THEN e
  ELSE ScanRewards(e, s, 1, position, now - e.roundStartTimeRef)

\* A variant that empties the buffer without delivering it.
flushDropping(e) == [e EXCEPT !.sampleBuffer = <<>>]

\* if (sampleBuffer.current.length > 0) { onSampleBatch([...]); buffer = [] }
flush(e) ==
  IF Len(e.sampleBuffer) > 0
  THEN [e EXCEPT !.batches = Append(@, e.sampleBuffer), !.sampleBuffer = <<>>]
  ELSE e

\* createSample / the sampling callback of the render s, then the push and
\* the flush of a full buffer.
pushSample(e, s) ==
  LET sample == [roundIndex |-> s.roundIndex, timestampMs |-> now - s.roundStartTime]
      pushed == [e EXCEPT !.sampleBuffer = Append(@, sample),
                          !.lastSampleTimeRef = now,
                          !.sampled = @ + 1]
  IN  IF Len(pushed.sampleBuffer) >= batchSize THEN flush(pushed) ELSE pushed

(***************************************************************************)
(* Render: commit the pending state, then run the effects whose            *)
(* dependencies changed, in the order the component declares them.         *)
(***************************************************************************)
\* The main-loop effect of useAgentPhysics / the sampling effect of
\* useMouseTracking: flush when inactive, otherwise (re)start.
SimulationEffect(e, old, new) ==
  LET changed ==
        \/ isActive(old) # isActive(new)
        \/ old.roundIndex # new.roundIndex
        \/ old.roundStartTime # new.roundStartTime
        \/ mode = "agent" /\ (old.isStarted # new.isStarted
                                \/ old.isRoundEnded # new.isRoundEnded)
  IN  IF ~changed THEN e
      ELSE IF ~isActive(new) THEN flush(e)
      ELSE IF mode = "agent" THEN [e EXCEPT !.lastSampleTimeRef = now]
      ELSE e

\* The end countdown effect: its interval runs while the round is ended and
\* a Round is pending.
EndCountdownEffect(e, old, new) ==
  LET changed ==
        \/ old.isRoundEnded # new.isRoundEnded
        \/ old.pendingRound # new.pendingRound
        \/ old.completedRounds # new.completedRounds
  IN  IF ~changed THEN e
      ELSE [e EXCEPT !.endInterval = new.isRoundEnded /\ new.pendingRound # <<>>]

\* The start countdown effect: at 0 start the round, above 0 arm the
\* one-second timeout.
StartCountdownEffect(e, old, new) ==
  LET changed ==
        \/ old.startCountdown # new.startCountdown
        \/ old.roundIndex # new.roundIndex
  IN  IF ~changed THEN e
      ELSE IF new.startCountdown = <<>> THEN [e EXCEPT !.startTimeout = FALSE]
      ELSE IF new.startCountdown[1] <= 0
      THEN LET e1 == [e EXCEPT !.startTimeout = FALSE,
                               !.isStartingRef = FALSE,
                               !.nx.startCountdown = <<>>,
                               !.roundStartTimeRef = now,
                               !.nx.isStarted = TRUE]
           IN  [startTimer(e1) EXCEPT !.events = Append(@,
                  GameEvent("round_start", new.roundIndex, 0, 0 - 1, 0 - 1))]
      ELSE [e EXCEPT !.startTimeout = TRUE]

\* A variant of the round initialisation that depends on isRoundEnded
\* instead of the round index.
InitRoundOnEnd(e, old, new, layout) ==
  IF old.isRoundEnded = new.isRoundEnded THEN e
  ELSE [e EXCEPT !.isEndingRef = FALSE,
                 !.isStartingRef = FALSE,
                 !.roundStartTimeRef = 0,
                 !.collectedIds = {},
                 !.rewardsRef = layout,
                 !.nx.marked = {},
                 !.nx.isRoundEnded = FALSE,
                 !.nx.pendingRound = <<>>,
                 !.nx.endCountdown = END_COUNTDOWN_SECONDS,
                 !.nx.startCountdown = <<>>,
                 !.nx.isStarted = FALSE,
                 !.agentRef = IF mode = "agent" THEN AgentStart ELSE NoPosition,
                 !.isMouseInCanvas = FALSE,
                 !.lastSampleTimeRef = 0,
                 !.sampleBuffer = <<>>,
                 !.allCollectedCalls = 0]

\* The round initialisation effect, with resetAgent() / resetTracking() and
\* resetRewardDetection().
InitRoundEffect(e, old, new, layout) ==
  IF old.roundIndex = new.roundIndex THEN e
  ELSE [e EXCEPT !.isEndingRef = FALSE,
                 !.isStartingRef = FALSE,
                 !.roundStartTimeRef = 0,
                 !.collectedIds = {},
                 !.rewardsRef = layout,
                 !.nx.marked = {},
                 !.nx.isRoundEnded = FALSE,
                 !.nx.pendingRound = <<>>,
                 !.nx.endCountdown = END_COUNTDOWN_SECONDS,
                 !.nx.startCountdown = <<>>,
                 !.nx.isStarted = FALSE,
                 !.agentRef = IF mode = "agent" THEN AgentStart ELSE NoPosition,
                 !.isMouseInCanvas = FALSE,
                 !.lastSampleTimeRef = 0,
                 !.sampleBuffer = <<>>,
                 !.allCollectedCalls = 0]

Effects(e, old, new, layout) ==
  IF mode = "agent"
  THEN InitRoundEffect(
         StartCountdownEffect(
           EndCountdownEffect(SimulationEffect(e, old, new), old, new), old, new),
         old, new, layout)
  ELSE InitRoundEffect(
         SimulationEffect(
           StartCountdownEffect(EndCountdownEffect(e, old, new), old, new), old, new),
         old, new, layout)

\* The queued setRewards updaters, run while rendering: each maps the
\* rewards state and stores the result in rewardsRef.current.
RunUpdaters(e, new) == [e EXCEPT !.rewardsRef = MarkCollected(@, new.marked)]

Render ==
  /\ mounted
  /\ nx # st
  /\ LET new == [nx EXCEPT !.roundStartTime = roundStartTimeRef]
     IN  /\ st' = new
         /\ IF new.screen = "completion"
            THEN \* unmount: the cleanups clear the timers; nothing is flushed
                 /\ mounted' = FALSE
                 /\ Install([Env EXCEPT !.nx = new, !.endInterval = FALSE,
                                        !.startTimeout = FALSE])
            ELSE /\ mounted' = TRUE
                 /\ Install(Effects(RunUpdaters([Env EXCEPT !.nx = new], new), st, new,
                                     LayoutOf(new.roundIndex)))
  /\ UNCHANGED <<genVars, unitVars, now, mode>>

(***************************************************************************)
(* The callbacks: one action per task the browser runs.                    *)
(***************************************************************************)
\* handleStart: the Start button, shown while the round is neither started
\* nor ended nor counting down.
handleStart ==
  /\ mounted
  /\ ~st.isStarted /\ ~st.isRoundEnded /\ st.startCountdown = <<>>
  /\ Install(IF isStartingRef THEN Env
             ELSE [Env EXCEPT !.isStartingRef = TRUE,
                              !.nx.startCountdown = <<START_COUNTDOWN_SECONDS>>])
  /\ UNCHANGED <<genVars, unitVars, now, mode, mounted, st>>

\* The start countdown's timeout: setStartCountdown(prev => prev - 1).
StartCountdownTick ==
  /\ mounted
  /\ startTimeout
  /\ Install([Env EXCEPT !.startTimeout = FALSE,
                         !.nx.startCountdown = IF @ # <<>> THEN <<@[1] - 1>> ELSE <<>>])
  /\ UNCHANGED <<genVars, unitVars, now, mode, mounted, st>>

\* useGameTimer's interval callback.
TimerTick ==
  /\ mounted
  /\ st.isRunning
  /\ LET elapsed == now - startTimeRef
         remaining == Max(0, TIME_LIMIT - elapsed)
     IN  Install(IF remaining <= 0
                 THEN handleRoundEnd(
                        [Env EXCEPT !.nx.isRunning = FALSE,
                                    !.timerLog.timeUp =
                                       IF timerLog.stopped THEN "late" ELSE "live"],
                        st, "timeout", <<>>)
                 ELSE Env)
  /\ UNCHANGED <<genVars, unitVars, now, mode, mounted, st>>

\* One frame of useAgentPhysics' gameLoop: move, onPositionUpdate, and the
\* sample when the interval has passed.
gameLoop ==
  /\ mounted
  /\ mode = "agent"
  /\ isActive(st)
  /\ \E position \in AgentSpots, eager \in BOOLEAN :
       LET moved == [Env EXCEPT !.agentRef = position, !.eager = eager]
           updated == handlePositionUpdate(moved, st, position)
           due == now - updated.lastSampleTimeRef >= SAMPLE_INTERVAL
       IN  /\ due => sampled < MaxSamples
           /\ Install(IF due THEN pushSample(updated, st) ELSE updated)
  /\ UNCHANGED <<genVars, unitVars, now, mode, mounted, st>>

\* GameCanvas.handleCanvasMouseMove: handleMouseMove, then checkPosition.
handleCanvasMouseMove ==
  /\ mounted
  /\ mode = "cursor"
  /\ st.isStarted /\ ~st.isRoundEnded
  /\ \E position \in AgentSpots :
       Install(checkPosition([Env EXCEPT !.agentRef = position], st, position))
  /\ UNCHANGED <<genVars, unitVars, now, mode, mounted, st>>

PointerEvents ==
  Cardinality({i \in DOMAIN events : events[i].eventType \in {"mouse_enter", "mouse_leave"}})

\* GameCanvas.handleCanvasMouseEnter / handleCanvasMouseLeave.
handleCanvasMouseEnter ==
  /\ mounted
  /\ mode = "cursor"
  /\ st.isStarted /\ ~st.isRoundEnded
  /\ PointerEvents < MaxPointerEvents
  /\ Install([Env EXCEPT !.isMouseInCanvas = TRUE,
                         !.events = Append(@, GameEvent("mouse_enter", st.roundIndex,
                                        now - roundStartTimeRef, 0 - 1, 0 - 1))])
  /\ UNCHANGED <<genVars, unitVars, now, mode, mounted, st>>

handleCanvasMouseLeave ==
  /\ mounted
  /\ mode = "cursor"
  /\ st.isStarted /\ ~st.isRoundEnded
  /\ PointerEvents < MaxPointerEvents
  /\ Install([Env EXCEPT !.isMouseInCanvas = FALSE,
                         !.events = Append(@, GameEvent("mouse_leave", st.roundIndex,
                                        now - roundStartTimeRef, 0 - 1, 0 - 1))])
  /\ UNCHANGED <<genVars, unitVars, now, mode, mounted, st>>

\* useMouseTracking's sampling interval callback.
SampleTick ==
  /\ mounted
  /\ mode = "cursor"
  /\ isActive(st)
  /\ agentRef # NoPosition /\ isMouseInCanvas
  /\ now - lastSampleTimeRef >= SAMPLE_INTERVAL  \* at most one firing per interval
  /\ sampled < MaxSamples
  /\ Install(pushSample(Env, st))
  /\ UNCHANGED <<genVars, unitVars, now, mode, mounted, st>>

\* App.handleRoundComplete up to its first await.
handleRoundComplete(e, round) ==
  [e EXCEPT !.nx.completedRounds = st.completedRounds + 1,
            !.appTasks = Append(@, st.completedRounds + 1)]

\* The end countdown's interval callback.
EndCountdownTick ==
  /\ mounted
  /\ endInterval
  /\ LET next == nx.endCountdown - 1
     IN  Install(
           IF next <= 0
           THEN LET e1 == [Env EXCEPT !.endInterval = FALSE,
                                      !.nx.isRoundEnded = FALSE,
                                      !.isEndingRef = FALSE]
                    e2 == handleRoundComplete(e1, st.pendingRound[1])
                IN  [e2 EXCEPT !.nx.pendingRound = <<>>, !.nx.endCountdown = 0]
           ELSE [Env EXCEPT !.nx.endCountdown = next])
  /\ UNCHANGED <<genVars, unitVars, now, mode, mounted, st>>

\* App.handleRoundComplete after its awaits: show the end-level modal
\* (agent mode) or install the next round index (cursor mode), or leave for
\* the completion screen.
ContinueRoundComplete ==
  /\ mounted
  /\ appTasks # <<>>
  /\ LET newLength == Head(appTasks)
         e1 == [Env EXCEPT !.appTasks = Tail(@)]
     IN  Install(
           IF newLength < N_ROUNDS
           THEN IF mode = "agent" THEN [e1 EXCEPT !.nx.showEndLevelModal = TRUE]
                ELSE [e1 EXCEPT !.nx.roundIndex = newLength]
           ELSE [e1 EXCEPT !.nx.screen = "completion"])
  /\ UNCHANGED <<genVars, unitVars, now, mode, mounted, st>>

\* App.handleEndLevelOk: the modal's OK button installs the next round index.
handleEndLevelOk ==
  /\ mounted
  /\ mode = "agent"
  /\ st.showEndLevelModal
  /\ Install([Env EXCEPT !.nx.showEndLevelModal = FALSE,
                         !.nx.roundIndex = st.completedRounds])
  /\ UNCHANGED <<genVars, unitVars, now, mode, mounted, st>>

\* Time passes.
Tick ==
  /\ mounted
  /\ now < MaxTime
  /\ now' = now + 1
  /\ UNCHANGED <<genVars, unitVars, roundVars>>

\* Seed strings `${participantKey}|${roundIndex}`: "", "p|0", "p|1".
SeedStrings == {<<>>, <<112, 124, 48>>, <<112, 124, 49>>}

NoStream == [i \in 1..StreamPeriod |-> 0]

(***************************************************************************)
(* The agent simulator on its own: one animation frame of useAgentPhysics  *)
(* (rotate, moveForward, boundary policy).  Coordinates are whole pixels,  *)
(* the heading stays on the four axis directions, and the time between two *)
(* frames is a whole number of frame intervals.  Times are in ms.          *)
(***************************************************************************)
AGENT_SPEED == 3
AGENT_ROTATION_SPEED == 5
AGENT_START_HEADING == 90
AGENT_START_X == CANVAS_SIZE \div 2
AGENT_START_Y == CANVAS_SIZE \div 2
FRAME_INTERVAL == 16
\* SAMPLE_INTERVAL of the agent build, in ms.
SAMPLE_INTERVAL_MS == 100
\* performance.now() when the main-loop effect starts the loop.
ActivationTime == 1000
\* samples that fill a batch of the simulator on its own
simBatchSize == 2
\* reset() calls made in one behaviour.
MaxResets == 1

\* startPosition ?? AGENT_START, startHeading, AGENT_SPEED.
StartPose ==
  [x |-> AGENT_START_X, y |-> AGENT_START_Y, heading |-> AGENT_START_HEADING,
   velocity |-> AGENT_SPEED]

\* The collisionCheck a caller supplies: a wall across the canvas whose lower
\* face is 57 px above the start position, one regular frame's move beyond
\* where a frame gap of 18 intervals takes the agent.
collisionCheck(a) == a.y <= AGENT_START_Y - 57

NoStep ==
  [op |-> "none", rotated |-> StartPose, elapsed |-> 0, moved |-> StartPose,
   isColliding |-> FALSE, wasInCollision |-> FALSE, received |-> StartPose,
   timestamp |-> 0, sampled |-> FALSE]

\* The refs and state of a simulator just activated at ActivationTime, with
\* or without a collisionCheck.
SimStarted(hasCollisionCheck) ==
  [hasCollisionCheck |-> hasCollisionCheck,
   clock |-> ActivationTime,
   lastFrameTimeRef |-> ActivationTime,
   lastSampleTimeRef |-> ActivationTime,
   isInCollisionRef |-> FALSE,
   agentState |-> StartPose,     \* the React state agent
   pendingAgent |-> <<>>,        \* a setAgent not yet rendered
   sampleBuffer |-> <<>>,
   delivered |-> <<>>,           \* onSampleBatch calls
   samples |-> <<>>,             \* timestamps of the samples created
   recorded |-> <<>>,            \* the samples created, as createSample builds them
   collisions |-> <<>>,          \* onCollision calls
   resets |-> 0,
   collisionFrame |-> FALSE,     \* the latest frame found a new collision
   last |-> NoStep]              \* the last step and its intermediate values

\* Frames run in one behaviour.
MaxTicks == 3
\* deltaTime / FRAME_INTERVAL: a regular frame, a quarter turn's worth of
\* frames, and two gaps (a hidden tab) long enough to cross the canvas.
ElapsedFrames == {1, 18, 342, 504}

Cos(heading) == CASE heading = 0 -> 1 [] heading = 180 -> 0 - 1 [] OTHER -> 0
Sin(heading) == CASE heading = 90 -> 1 [] heading = 270 -> 0 - 1 [] OTHER -> 0

\* rotate(currentAgent, direction, deltaTime).
rotate(currentAgent, direction, frames) ==
  LET rotationAmount == AGENT_ROTATION_SPEED * frames
      turned == IF direction = "left" THEN currentAgent.heading + rotationAmount
                ELSE currentAgent.heading - rotationAmount
  IN  [currentAgent EXCEPT !.heading = ((turned % 360) + 360) % 360]

\* A variant that wraps as often as needed.
WrapModulo(v) == v % CANVAS_SIZE

\* The wrap branch on one coordinate: two tests, each applied once.
WrapCoord(v) ==
  LET lifted == IF v < 0 THEN CANVAS_SIZE + v ELSE v
  IN  IF lifted >= CANVAS_SIZE THEN lifted - CANVAS_SIZE ELSE lifted

\* The clamp branch on one coordinate.
ClampCoord(v) ==
  IF v < 0 THEN 0 ELSE IF v >= CANVAS_SIZE THEN CANVAS_SIZE - 1 ELSE v

\* moveForward(currentAgent, deltaTime).
moveForward(currentAgent, frames) ==
  LET distance == currentAgent.velocity * frames
      newX == currentAgent.x + Cos(currentAgent.heading) * distance
      newY == currentAgent.y - Sin(currentAgent.heading) * distance
  IN  IF wrapBoundaries
      THEN [currentAgent EXCEPT !.x = WrapCoord(newX), !.y = WrapCoord(newY)]
      ELSE [currentAgent EXCEPT !.x = ClampCoord(newX), !.y = ClampCoord(newY)]

\* A variant that fires on every colliding frame.
LevelTriggered(isColliding, inCollision) == isColliding

\* isColliding && !isInCollisionRef.current
IsNewCollision(isColliding, inCollision) == isColliding /\ ~inCollision

\* createSample(currentAgent, lastAgent): the rounded time since the
\* activation and the rounded position (Math.round leaves whole pixels as
\* they are).  The other fields are left out.
createSample(currentAgent, timestamp) ==
  [timestampMs |-> timestamp - ActivationTime, x |-> currentAgent.x, y |-> currentAgent.y]

\* One frame of the loop at rAF time timestamp: rotation from the key
\* state, the move, the collision branch, agentRef.current = currentAgent,
\* onPositionUpdate(currentAgent), and the sample when it is due.
AgentFrame ==
  /\ ticks < MaxTicks
  /\ \E frames \in ElapsedFrames, keys \in {"none", "left", "right"} :
       LET timestamp == sim.clock + frames * FRAME_INTERVAL
           deltaTime == IF sim.lastFrameTimeRef > 0 THEN timestamp - sim.lastFrameTimeRef
                        ELSE FRAME_INTERVAL
           elapsed == deltaTime \div FRAME_INTERVAL
           rotated == IF keys = "none" THEN agent ELSE rotate(agent, keys, elapsed)
           moved == moveForward(rotated, elapsed)
           isColliding == sim.hasCollisionCheck /\ collisionCheck(moved)
           newCollision == IsNewCollision(isColliding, sim.isInCollisionRef)
           currentAgent == IF newCollision THEN StartPose ELSE moved
           due == timestamp - sim.lastSampleTimeRef >= SAMPLE_INTERVAL_MS
           buffer == Append(sim.sampleBuffer, timestamp)
           full == Len(buffer) >= simBatchSize
       IN  /\ rotated.heading \in {0, 90, 180, 270}
           /\ agent' = currentAgent
           /\ sim' = [sim EXCEPT
                !.clock = timestamp,
                !.lastFrameTimeRef = timestamp,
                !.isInCollisionRef =
                   IF newCollision THEN TRUE
                   ELSE IF sim.hasCollisionCheck /\ ~isColliding THEN FALSE ELSE @,
                !.collisions = IF newCollision THEN Append(@, moved) ELSE @,
                !.collisionFrame = newCollision,
                !.pendingAgent = IF due THEN <<currentAgent>> ELSE @,
                !.samples = IF due THEN Append(@, timestamp) ELSE @,
                !.recorded = IF due THEN Append(@, createSample(currentAgent, timestamp)) ELSE @,
                !.lastSampleTimeRef = IF due THEN timestamp ELSE @,
                !.sampleBuffer = IF ~due THEN @ ELSE IF full THEN <<>> ELSE buffer,
                !.delivered = IF due /\ full THEN Append(@, buffer) ELSE @,
                !.last = [op |-> "tick", rotated |-> rotated, elapsed |-> elapsed,
                          moved |-> moved, isColliding |-> isColliding,
                          wasInCollision |-> sim.isInCollisionRef,
                          received |-> currentAgent, timestamp |-> timestamp,
                          sampled |-> due]]
  /\ ticks' = ticks + 1
  /\ UNCHANGED <<gen, rngMode, stream, now, roundVars, wrapBoundaries, mazeVars, prngVars, statsVars>>

\* reset() with no arguments, called between two frames.
reset ==
  /\ sim.resets < MaxResets
  /\ agent' = StartPose
  /\ sim' = [sim EXCEPT !.pendingAgent = <<StartPose>>,
                        !.lastFrameTimeRef = 0,
                        !.lastSampleTimeRef = 0,
                        !.sampleBuffer = <<>>,
                        !.isInCollisionRef = FALSE,
                        !.resets = @ + 1,
                        !.last = [NoStep EXCEPT !.op = "reset"]]
  /\ UNCHANGED <<gen, rngMode, stream, now, roundVars, wrapBoundaries, ticks, mazeVars, prngVars, statsVars>>

\* The render that commits a setAgent, and its effect
\* agentRef.current = agent.
AgentSyncEffect ==
  /\ sim.pendingAgent # <<>>
  /\ agent' = sim.pendingAgent[1]
  /\ sim' = [sim EXCEPT !.agentState = sim.pendingAgent[1],
                        !.pendingAgent = <<>>,
                        !.last = [NoStep EXCEPT !.op = "render"]]
  /\ UNCHANGED <<gen, rngMode, stream, now, roundVars, wrapBoundaries, ticks, mazeVars, prngVars, statsVars>>

(***************************************************************************)
(* Maze training: MazeCanvas.handlePositionUpdate with the point test and  *)
(* the swept test against the wall rectangles.  Coordinates are whole      *)
(* pixels, so the quotients ua and ub are compared as fractions.           *)
(***************************************************************************)
AGENT_SIZE == 15
MAZE_WALL_THICKNESS == 20
MAZE_TARGET_SIZE == 50
MAZE_START_X == 100
MAZE_START_Y == CANVAS_SIZE - 100
MAZE_TARGET_X == CANVAS_SIZE - 100 - MAZE_TARGET_SIZE
MAZE_TARGET_Y == 100
\* Frames run in one maze behaviour.
MaxMazeFrames == 3

\* 0 <= num / denom <= 1 for denom # 0.
UnitFraction(num, denom) ==
  IF denom > 0 THEN 0 <= num /\ num <= denom ELSE denom <= num /\ num <= 0

lineIntersectsLine(x1, y1, x2, y2, x3, y3, x4, y4) ==
  LET denom == (y4 - y3) * (x2 - x1) - (x4 - x3) * (y2 - y1)
      uaNum == (x4 - x3) * (y1 - y3) - (y4 - y3) * (x1 - x3)
      ubNum == (x2 - x1) * (y1 - y3) - (y2 - y1) * (x1 - x3)
  IN  IF denom = 0 THEN FALSE  \* Math.abs(denom) < 0.0001: parallel
      ELSE UnitFraction(uaNum, denom) /\ UnitFraction(ubNum, denom)

pointInRect(px, py, rx, ry, rw, rh) ==
  px >= rx /\ px <= rx + rw /\ py >= ry /\ py <= ry + rh

lineIntersectsRect(x1, y1, x2, y2, rx, ry, rw, rh) ==
  LET left == rx
      right == rx + rw
      top == ry
      bottom == ry + rh
  IN  \/ lineIntersectsLine(x1, y1, x2, y2, left, top, right, top)
      \/ lineIntersectsLine(x1, y1, x2, y2, left, bottom, right, bottom)
      \/ lineIntersectsLine(x1, y1, x2, y2, left, top, left, bottom)
      \/ lineIntersectsLine(x1, y1, x2, y2, right, top, right, bottom)
      \/ pointInRect(x1, y1, rx, ry, rw, rh)
      \/ pointInRect(x2, y2, rx, ry, rw, rh)

generateMazeWalls ==
  LET t == MAZE_WALL_THICKNESS
      s == CANVAS_SIZE
  IN  {[x |-> 0, y |-> 0, width |-> s, height |-> t],
       [x |-> 0, y |-> s - t, width |-> s, height |-> t],
       [x |-> 0, y |-> 0, width |-> t, height |-> s],
       [x |-> s - t, y |-> 0, width |-> t, height |-> s],
       [x |-> t, y |-> 600, width |-> 650, height |-> t],
       [x |-> 330, y |-> 350, width |-> 650, height |-> t]}

\* Circle against rectangle, agentRadius = AGENT_SIZE * 0.6:
\* distanceSquared < agentRadius^2, scaled by 100.
checkWallCollision(a) ==
  \E wall \in generateMazeWalls :
    LET closestX == Max(wall.x, Min(a.x, wall.x + wall.width))
        closestY == Max(wall.y, Min(a.y, wall.y + wall.height))
        dx == a.x - closestX
        dy == a.y - closestY
    IN  100 * (dx * dx + dy * dy) < (AGENT_SIZE * 6) * (AGENT_SIZE * 6)

\* A variant without the swept test: the point test alone decides.
checkPointOnly(oldPos, newPos) == FALSE

checkPathCollision(oldPos, newPos) ==
  \E wall \in generateMazeWalls :
    lineIntersectsRect(oldPos.x, oldPos.y, newPos.x, newPos.y,
                       wall.x, wall.y, wall.width, wall.height)

\* distance < MAZE_TARGET_SIZE / 2 + AGENT_SIZE * 0.4, squared and scaled
\* by 100.
checkTargetReached(a) ==
  LET dx == 2 * a.x - (2 * MAZE_TARGET_X + MAZE_TARGET_SIZE)
      dy == 2 * a.y - (2 * MAZE_TARGET_Y + MAZE_TARGET_SIZE)
      reach == 5 * MAZE_TARGET_SIZE + 4 * AGENT_SIZE
  IN  25 * (dx * dx + dy * dy) < reach * reach

MazeStart ==
  [x |-> MAZE_START_X, y |-> MAZE_START_Y, heading |-> 90, velocity |-> AGENT_SPEED]
PositionOf(a) == [x |-> a.x, y |-> a.y]
MazeEvent(eventType, a) == [eventType |-> eventType, agentPosition |-> PositionOf(a)]

\* Where a frame of the simulator can put the agent: points clear of the
\* walls on both sides of each barrier, points inside the lower barrier and
\* in its gap, and the target.
MazePositions ==
  {[x |-> px, y |-> py, heading |-> 90, velocity |-> AGENT_SPEED] :
     px \in {MAZE_START_X, 500, MAZE_TARGET_X + MAZE_TARGET_SIZE \div 2},
     py \in {MAZE_TARGET_Y + MAZE_TARGET_SIZE \div 2, 480, 610, 750, MAZE_START_Y}}

\* deltaTime / FRAME_INTERVAL of a maze frame: a regular frame, and a gap
\* longer than the sample interval.
MazeElapsedFrames == {1, 7}

\* One frame of the maze: the simulator moves the agent (agentRef.current =
\* currentAgent), then MazeCanvas.handlePositionUpdate(agent), whose collision
\* branch calls resetAgent (setAgent(start pose), agentRef.current = start
\* pose, lastFrameTimeRef and lastSampleTimeRef zeroed), and then the rest of
\* the loop body: the sample test and, when the sample is due,
\* setAgent(currentAgent) with the pose the frame computed.
MazeFrame ==
  /\ ticks < MaxMazeFrames
  /\ ~isCompletedRef
  /\ ticks' = ticks + 1
  /\ \E moved \in MazePositions, frames \in MazeElapsedFrames :
       LET prevPos == prevPositionRef
           newPos == PositionOf(moved)
           hasPointCollision == checkWallCollision(moved)
           hasPathCollision == checkPathCollision(prevPos, newPos)
           collided == hasPointCollision \/ hasPathCollision
           timestamp == sim.clock + frames * FRAME_INTERVAL
           lastSampleTime == IF collided THEN 0 ELSE sim.lastSampleTimeRef
           due == timestamp - lastSampleTime >= SAMPLE_INTERVAL_MS
       IN  /\ sim' = [sim EXCEPT
                !.clock = timestamp,
                !.lastFrameTimeRef = IF collided THEN 0 ELSE timestamp,
                !.lastSampleTimeRef = IF due THEN timestamp ELSE lastSampleTime,
                !.pendingAgent = IF due THEN <<moved>>
                                 ELSE IF collided THEN <<MazeStart>> ELSE @,
                !.collisionFrame = collided]
           /\ IF collided
              THEN /\ collisionCount' = collisionCount + 1
                   /\ mazeEvents' = Append(mazeEvents, MazeEvent("maze_collision", moved))
                   /\ agent' = MazeStart
                   /\ prevPositionRef' = PositionOf(MazeStart)
                   /\ UNCHANGED isCompletedRef
              ELSE /\ agent' = moved
                   /\ prevPositionRef' = newPos
                   /\ UNCHANGED collisionCount
                   /\ IF checkTargetReached(moved)
                      THEN /\ isCompletedRef' = TRUE
                           /\ mazeEvents' = Append(mazeEvents, MazeEvent("maze_complete", moved))
                      ELSE UNCHANGED <<isCompletedRef, mazeEvents>>
  /\ UNCHANGED <<gen, rngMode, stream, now, roundVars, wrapBoundaries, prngVars, statsVars>>

\* The render that commits the latest setAgent of the maze simulator, and the
\* effect agentRef.current = agent that follows it.
MazeSyncEffect ==
  /\ sim.pendingAgent # <<>>
  /\ agent' = sim.pendingAgent[1]
  /\ sim' = [sim EXCEPT !.agentState = sim.pendingAgent[1], !.pendingAgent = <<>>]
  /\ UNCHANGED <<gen, rngMode, stream, now, roundVars, wrapBoundaries, ticks, mazeVars, prngVars, statsVars>>

(***************************************************************************)
(* One SeededRandom object: the constructor, then next() and nextInt()     *)
(* calls.  A returned float v is kept as its numerator: v = num / 0x7fffffff.*)
(***************************************************************************)
\* Calls made on one object.
MaxCalls == 4

\* Seed strings (UTF-16 code units): "", "p|0", "p6|0", three strings whose
\* hashes are the state with the largest successor, the state whose
\* successor in exact arithmetic is 0x7fffffff, and -2^31, the one-character
\* string of code unit 0, whose hash is 0, and "cjvowti|0", a
\* `${participantId}|${roundIndex}` seed whose hash is -2^31.
PrngSeedStrings ==
  {<<>>, <<112, 124, 48>>, <<112, 54, 124, 48>>,
   <<65, 84, 86, 81, 81, 76, 86>>,
   <<65, 91, 70, 79, 89, 83, 91>>,
   <<68, 65, 69, 70, 73, 68, 89>>,
   <<0>>,
   <<99, 106, 118, 111, 119, 116, 105, 124, 48>>}

\* The (min, max) arguments of the nextInt calls: the ranges the generators
\* use, a one-element range and a range with a negative end.
IntRanges ==
  {<<CLUSTER_K_MIN, CLUSTER_K_MAX>>,
   <<DIFFUSE_EDGE_MARGIN, CANVAS_SIZE - DIFFUSE_EDGE_MARGIN>>,
   <<CenterMin("CONCENTRATED"), CenterMax("CONCENTRATED")>>,
   <<0, 0>>, <<0 - 3, 3>>}

NoCall == [op |-> "none", from |-> <<0>>, num |-> 0, min |-> 0, max |-> 0, r |-> 0]

\* rng.next().
next ==
  /\ calls < MaxCalls
  /\ calls' = calls + 1
  /\ prngSeed' = NextSeed(prngSeed)
  /\ lastCall' = [NoCall EXCEPT !.op = "next", !.from = prngSeed,
                                !.num = SeedValue(prngSeed')]
  /\ UNCHANGED <<gen, rngMode, stream, now, roundVars, physicsVars, mazeVars, statsVars>>

\* rng.nextInt(min, max).
nextInt ==
  /\ calls < MaxCalls
  /\ calls' = calls + 1
  /\ prngSeed' = NextSeed(prngSeed)
  /\ \E range \in IntRanges :
       lastCall' = [op |-> "nextInt", from |-> prngSeed, num |-> SeedValue(prngSeed'),
                    min |-> range[1], max |-> range[2],
                    r |-> NextIntValue(SeedValue(prngSeed'), range[1], range[2])]
  /\ UNCHANGED <<gen, rngMode, stream, now, roundVars, physicsVars, mazeVars, statsVars>>

(***************************************************************************)
(* statsCalculator.ts.  A number is kept as a fraction [num, den]; a zero   *)
(* denominator is what a division by zero leaves: NaN for 0 / 0, Infinity  *)
(* or -Infinity otherwise.  sessionId and roundIndex are passed through and *)
(* left out.                                                               *)
(***************************************************************************)
GRID_SIZE == 10
IDLE_VELOCITY_THRESHOLD == 5
IDLE_DURATION_THRESHOLD == 500
EDGE_REGION_WIDTH == 100
\* Samples and events of one round.
MaxMovements == 3
MaxStatEvents == 3

Num(n) == [num |-> n, den |-> 1]
Sign(n) == IF n > 0 THEN 1 ELSE IF n < 0 THEN 0 - 1 ELSE 0
\* a / b on numbers that are integers.
Quot(a, b) == IF b = 0 THEN [num |-> Sign(a), den |-> 0] ELSE [num |-> a, den |-> b]
IsFiniteNumber(v) == v.den # 0

\* Math.sqrt on a perfect square.
Sqrt(n) == CHOOSE r \in 0..n : r * r = n

RECURSIVE SumOf(_, _)
SumOf(seq, field) ==
  IF seq = <<>> THEN 0 ELSE Head(seq)[field] + SumOf(Tail(seq), field)

\* A variant that leaves the list in the order given.
InputOrder(list) == list

\* [...list].sort((a, b) => a.timestampMs - b.timestampMs): a stable sort.
RECURSIVE InsertByTimestamp(_, _)
InsertByTimestamp(sorted, m) ==
  IF sorted = <<>> THEN <<m>>
  ELSE IF Head(sorted).timestampMs <= m.timestampMs
       THEN <<Head(sorted)>> \o InsertByTimestamp(Tail(sorted), m)
       ELSE <<m>> \o sorted
RECURSIVE SortByTimestamp(_)
SortByTimestamp(list) ==
  IF list = <<>> THEN <<>>
  ELSE InsertByTimestamp(SortByTimestamp(SubSeq(list, 1, Len(list) - 1)), list[Len(list)])

calculateTotalDistance(movements) == SumOf(movements, "distanceFromLast")

\* Math.max(...velocities): -Infinity for no argument.
RECURSIVE MaxOf(_, _)
MaxOf(seq, field) ==
  IF Len(seq) = 1 THEN seq[1][field] ELSE Max(Head(seq)[field], MaxOf(Tail(seq), field))
MathMax(seq, field) == IF seq = <<>> THEN Quot(0 - 1, 0) ELSE Num(MaxOf(seq, field))

calculatePathEfficiency(movements, totalDistance) ==
  IF Len(movements) < 2 \/ totalDistance = 0 THEN Num(0)
  ELSE Quot(Sqrt(DistSq(movements[1], movements[Len(movements)])), totalDistance)

calculateCoverage(movements) ==
  LET cellSize == CANVAS_SIZE \div GRID_SIZE
      visited == {<<movements[i].x \div cellSize, movements[i].y \div cellSize>> :
                    i \in 1..Len(movements)}
      visitedCells == Cardinality(visited)
  IN  [coveragePercent |-> Quot(100 * visitedCells, GRID_SIZE * GRID_SIZE),
       revisitRate |-> IF visitedCells > 0 THEN Quot(Len(movements), visitedCells)
                       ELSE Num(0)]

\* The loop of calculatePauseMetrics from sample i on; acc holds pausesCount,
\* totalIdleTime and currentPauseStart (open: it is not null).
RECURSIVE PauseLoop(_, _, _)
PauseLoop(movements, i, acc) ==
  IF i > Len(movements) THEN acc
  ELSE LET isIdle == movements[i].velocity < IDLE_VELOCITY_THRESHOLD
           pauseDuration == movements[i].timestampMs - acc.currentPauseStart
       IN  PauseLoop(movements, i + 1,
             IF isIdle
             THEN IF acc.open THEN acc
                  ELSE [acc EXCEPT !.open = TRUE,
                                   !.currentPauseStart = movements[i].timestampMs]
             ELSE IF ~acc.open THEN acc
                  ELSE IF pauseDuration >= IDLE_DURATION_THRESHOLD
                       THEN [acc EXCEPT !.pausesCount = @ + 1,
                                        !.totalIdleTime = @ + pauseDuration,
                                        !.open = FALSE]
                       ELSE [acc EXCEPT !.open = FALSE])

calculatePauseMetrics(movements) ==
  LET looped == PauseLoop(movements, 1,
                  [pausesCount |-> 0, totalIdleTime |-> 0, open |-> FALSE,
                   currentPauseStart |-> 0])
      pauseDuration == movements[Len(movements)].timestampMs - looped.currentPauseStart
      atEnd == IF looped.open /\ Len(movements) > 0
                  /\ pauseDuration >= IDLE_DURATION_THRESHOLD
               THEN [looped EXCEPT !.pausesCount = @ + 1,
                                   !.totalIdleTime = @ + pauseDuration]
               ELSE looped
  IN  [pausesCount |-> atEnd.pausesCount,
       totalIdleTime |-> atEnd.totalIdleTime,
       meanPauseDuration |-> IF atEnd.pausesCount > 0
                             THEN Quot(atEnd.totalIdleTime, atEnd.pausesCount)
                             ELSE Num(0)]

\* A variant that takes the events in the order given.
TimingsUnsorted(rewardEvents) ==
  IF rewardEvents = <<>>
  THEN [firstRewardLatency |-> Num(0), meanInterRewardInterval |-> Num(0)]
  ELSE [firstRewardLatency |-> Num(rewardEvents[1].timestampMs),
        meanInterRewardInterval |->
          IF Len(rewardEvents) > 1
          THEN Quot(rewardEvents[Len(rewardEvents)].timestampMs - rewardEvents[1].timestampMs,
                    Len(rewardEvents) - 1)
          ELSE Num(0)]

\* for (i = 1; i < sortedEvents.length; i++) totalInterval += the gap to i - 1.
RECURSIVE IntervalSum(_, _)
IntervalSum(sortedEvents, i) ==
  IF i > Len(sortedEvents) THEN 0
  ELSE (sortedEvents[i].timestampMs - sortedEvents[i - 1].timestampMs)
         + IntervalSum(sortedEvents, i + 1)

calculateRewardTimings(rewardEvents) ==
  IF rewardEvents = <<>>
  THEN [firstRewardLatency |-> Num(0), meanInterRewardInterval |-> Num(0)]
  ELSE LET sortedEvents == SortByTimestamp(rewardEvents)
           totalInterval == IntervalSum(sortedEvents, 2)
       IN  [firstRewardLatency |-> Num(sortedEvents[1].timestampMs),
            meanInterRewardInterval |->
              IF Len(sortedEvents) > 1 THEN Quot(totalInterval, Len(sortedEvents) - 1)
              ELSE Num(0)]

calculateSpatialBias(movements) ==
  IF movements = <<>>
  THEN [edgeTimePercent |-> Num(0), centerBias |-> Num(0),
        quadrantDistribution |-> [NW |-> Num(25), NE |-> Num(25),
                                  SW |-> Num(25), SE |-> Num(25)]]
  ELSE LET centerMin == (CANVAS_SIZE - 400) \div 2
           centerMax == (CANVAS_SIZE + 400) \div 2
           midpoint == CANVAS_SIZE \div 2
           total == Len(movements)
           At(test(_)) == Cardinality({i \in 1..total : test(movements[i])})
           isEdge(m) == \/ m.x < EDGE_REGION_WIDTH \/ m.x > CANVAS_SIZE - EDGE_REGION_WIDTH
                        \/ m.y < EDGE_REGION_WIDTH \/ m.y > CANVAS_SIZE - EDGE_REGION_WIDTH
           isCenter(m) == /\ m.x >= centerMin /\ m.x <= centerMax
                          /\ m.y >= centerMin /\ m.y <= centerMax
           inNW(m) == m.x < midpoint /\ m.y < midpoint
           inNE(m) == m.x >= midpoint /\ m.y < midpoint
           inSW(m) == m.x < midpoint /\ m.y >= midpoint
           inSE(m) == m.x >= midpoint /\ m.y >= midpoint
           edgeSamples == At(isEdge)
           nonEdgeSamples == total - edgeSamples
       IN  [edgeTimePercent |-> Quot(100 * edgeSamples, total),
            centerBias |-> IF nonEdgeSamples > 0 THEN Quot(At(isCenter), nonEdgeSamples)
                           ELSE Num(0),
            quadrantDistribution |->
              [NW |-> Quot(100 * At(inNW), total), NE |-> Quot(100 * At(inNE), total),
               SW |-> Quot(100 * At(inSW), total), SE |-> Quot(100 * At(inSE), total)]]

createEmptyStats(durationMs, rewardsCollected) ==
  [timeToFinish |-> Num(durationMs),
   rewardsCollected |-> Num(rewardsCollected),
   completionRate |-> Quot(100 * rewardsCollected, 40),
   totalDistance |-> Num(0), meanVelocity |-> Num(0), maxVelocity |-> Num(0),
   pathEfficiency |-> Num(0), coveragePercent |-> Num(0), revisitRate |-> Num(0),
   pausesCount |-> Num(0), totalIdleTime |-> Num(0), meanPauseDuration |-> Num(0),
   firstRewardLatency |-> Num(durationMs), meanInterRewardInterval |-> Num(0),
   edgeTimePercent |-> Num(0), centerBias |-> Num(0),
   quadrantDistribution |-> [NW |-> Num(25), NE |-> Num(25), SW |-> Num(25), SE |-> Num(25)]]

\* calculateRoundStats past its guard for the empty movement list.
StatsOf(movements, statEvents, durationMs, rewardsCollected) ==
  LET sortedMovements == SortByTimestamp(movements)
      totalDistance == calculateTotalDistance(sortedMovements)
      coverage == calculateCoverage(sortedMovements)
      pauseMetrics == calculatePauseMetrics(sortedMovements)
      rewardEvents == SelectSeq(statEvents, LAMBDA e : e.eventType = "reward_hit")
      rewardTimings == calculateRewardTimings(rewardEvents)
      spatialBias == calculateSpatialBias(sortedMovements)
  IN  [timeToFinish |-> Num(durationMs),
       rewardsCollected |-> Num(rewardsCollected),
       completionRate |-> Quot(100 * rewardsCollected, 40),
       totalDistance |-> Num(totalDistance),
       meanVelocity |-> Quot(SumOf(sortedMovements, "velocity"), Len(sortedMovements)),
       maxVelocity |-> MathMax(sortedMovements, "velocity"),
       pathEfficiency |-> calculatePathEfficiency(sortedMovements, totalDistance),
       coveragePercent |-> coverage.coveragePercent,
       revisitRate |-> coverage.revisitRate,
       pausesCount |-> Num(pauseMetrics.pausesCount),
       totalIdleTime |-> Num(pauseMetrics.totalIdleTime),
       meanPauseDuration |-> pauseMetrics.meanPauseDuration,
       firstRewardLatency |-> rewardTimings.firstRewardLatency,
       meanInterRewardInterval |-> rewardTimings.meanInterRewardInterval,
       edgeTimePercent |-> spatialBias.edgeTimePercent,
       centerBias |-> spatialBias.centerBias,
       quadrantDistribution |-> spatialBias.quadrantDistribution]

\* A variant without the guard for the empty movement list.
StatsUnguarded(movements, statEvents, durationMs, rewardsCollected) ==
  StatsOf(movements, statEvents, durationMs, rewardsCollected)

calculateRoundStats(movements, statEvents, durationMs, rewardsCollected) ==
  IF Len(movements) = 0 THEN createEmptyStats(durationMs, rewardsCollected)
  ELSE StatsOf(movements, statEvents, durationMs, rewardsCollected)

\* The samples a round can hold: idle ones at (100,100) and moving ones at
\* (400,500), 500 px away, at timestamps around the pause threshold.  A
\* velocity equal to the idle threshold is not idle.
MovementSamples ==
  {[timestampMs |-> t, x |-> 100, y |-> 100, velocity |-> 0, distanceFromLast |-> 0] :
     t \in {0, 100, IDLE_DURATION_THRESHOLD - 1, IDLE_DURATION_THRESHOLD}}
  \cup
  {[timestampMs |-> t, x |-> 400, y |-> 500, velocity |-> IDLE_VELOCITY_THRESHOLD,
    distanceFromLast |-> 500] :
     t \in {0, 100, IDLE_DURATION_THRESHOLD - 1, IDLE_DURATION_THRESHOLD}}
\* The events a round can hold: reward hits at two timestamps and an event of
\* another type earlier than both.
StatEvents ==
  {[eventType |-> "reward_hit", timestampMs |-> t] : t \in {100, 400}}
    \cup {[eventType |-> "round_start", timestampMs |-> 0]}

\* A sample of the round arrives (the dashboard loads it).
addMovement ==
  /\ Len(statsCall.movements) < MaxMovements
  /\ \E m \in MovementSamples :
       statsCall' = [statsCall EXCEPT !.movements = Append(@, m)]
  /\ roundStats' = <<>>
  /\ UNCHANGED <<gen, rngMode, stream, now, roundVars, physicsVars, mazeVars, prngVars>>

\* An event of the round arrives.
addEvent ==
  /\ Len(statsCall.events) < MaxStatEvents
  /\ \E e \in StatEvents :
       statsCall' = [statsCall EXCEPT !.events = Append(@, e)]
  /\ roundStats' = <<>>
  /\ UNCHANGED <<gen, rngMode, stream, now, roundVars, physicsVars, mazeVars, prngVars>>

\* The dashboard's useMemo: calculateRoundStats on the data as loaded.
roundStatsMemo ==
  /\ roundStats = <<>>
  /\ roundStats' = <<calculateRoundStats(statsCall.movements, statsCall.events,
                                         statsCall.durationMs, statsCall.rewardsCollected)>>
  /\ UNCHANGED <<gen, rngMode, stream, now, roundVars, physicsVars, mazeVars, prngVars,
                 statsCall>>

\* The parts of the model a specification does not exercise.
GenIdle == gen = <<>> /\ rngMode = "any" /\ stream = NoStream
MazeIdle ==
  /\ prevPositionRef = PositionOf(MazeStart) /\ isCompletedRef = FALSE
  /\ collisionCount = 0 /\ mazeEvents = <<>>
PrngIdle == prngSeed = <<1>> /\ lastCall = NoCall /\ calls = 0
StatsIdle ==
  /\ statsCall = [movements |-> <<>>, events |-> <<>>, durationMs |-> 0, rewardsCollected |-> 0]
  /\ roundStats = <<>>
UnitIdle ==
  /\ agent = StartPose
  /\ wrapBoundaries = FALSE
  /\ ticks = 0
  /\ sim = SimStarted(FALSE)
  /\ MazeIdle
  /\ PrngIdle
  /\ StatsIdle

(***************************************************************************)
(* Specifications.                                                         *)
(***************************************************************************)
\* The round component before it is mounted.
RoundIdle ==
  /\ mode = "agent" /\ mounted = FALSE
  /\ st = InitialState /\ nx = InitialState
  /\ isEndingRef = FALSE /\ isStartingRef = FALSE /\ roundStartTimeRef = 0
  /\ collectedIds = {} /\ rewardsRef = <<>> /\ startTimeRef = 0
  /\ endInterval = FALSE /\ startTimeout = FALSE
  /\ agentRef = NoPosition /\ isMouseInCanvas = FALSE
  /\ lastSampleTimeRef = 0 /\ sampleBuffer = <<>> /\ appTasks = <<>>
  /\ events = <<>> /\ rounds = <<>> /\ batches = <<>>
  /\ allCollectedCalls = 0 /\ sampled = 0
  /\ timerLog = TimerStarted

\* The component mounted on round 0 with its layout, the page having been
\* open for one sample interval.
Init ==
  /\ gen = <<>> /\ rngMode = "any" /\ stream = NoStream
  /\ now = 1
  /\ mode \in {"agent", "cursor"}
  /\ mounted = TRUE
  /\ st = InitialState /\ nx = InitialState
  /\ isEndingRef = FALSE /\ isStartingRef = FALSE /\ roundStartTimeRef = 0
  /\ collectedIds = {} /\ rewardsRef = LayoutOf(0) /\ startTimeRef = 0
  /\ endInterval = FALSE /\ startTimeout = FALSE
  /\ agentRef = (IF mode = "agent" THEN AgentStart ELSE NoPosition)
  /\ isMouseInCanvas = FALSE
  /\ lastSampleTimeRef = 0 /\ sampleBuffer = <<>> /\ appTasks = <<>>
  /\ events = <<>> /\ rounds = <<>> /\ batches = <<>>
  /\ allCollectedCalls = 0 /\ sampled = 0
  /\ timerLog = TimerStarted
  /\ UnitIdle

Next ==
  \/ Render
  \/ handleStart
  \/ StartCountdownTick
  \/ TimerTick
  \/ gameLoop
  \/ handleCanvasMouseMove
  \/ handleCanvasMouseEnter
  \/ handleCanvasMouseLeave
  \/ SampleTick
  \/ EndCountdownTick
  \/ ContinueRoundComplete
  \/ handleEndLevelOk
  \/ Tick

Spec == Init /\ [][Next]_vars

\* One call, every condition, draws taken from the oracle.
InitGen ==
  /\ rngMode = "any"
  /\ stream = NoStream
  /\ now = 0
  /\ \E cond \in Conditions : gen = [r \in {1} |-> NewCall(cond, <<112, 124, 48>>)]
  /\ RoundIdle
  /\ UnitIdle

NextGen ==
  \/ \E r \in DOMAIN gen : generateRoundLayout(r)
  \/ \E r \in DOMAIN gen : CenterAttempt(r)
  \/ \E r \in DOMAIN gen : CenterFallback(r)
  \/ \E r \in DOMAIN gen : StrictAttempt(r)
  \/ \E r \in DOMAIN gen : RelaxedAttempt(r)
  \/ \E r \in DOMAIN gen : FallbackPlace(r)

SpecGen == InitGen /\ [][NextGen]_vars

\* The same call run to its end: the generator is synchronous code, so a
\* loop iteration that can be taken is taken.
SpecGenLive == InitGen /\ [][NextGen]_vars /\ WF_vars(NextGen)

\* Two calls with the same condition and the same seed string, one after
\* the other (the calls are synchronous), under a deterministic generator.
InitDet ==
  /\ \/ /\ rngMode = "seeded"
        /\ stream = NoStream
        /\ \E cond \in Conditions, str \in SeedStrings :
             gen = [r \in {1, 2} |-> NewCall(cond, str)]
     \/ /\ rngMode = "stream"
        /\ stream \in [1..StreamPeriod -> StreamSamples]
        /\ \E cond \in Conditions : gen = [r \in {1, 2} |-> NewCall(cond, <<112, 124, 48>>)]
  /\ now = 0
  /\ RoundIdle
  /\ UnitIdle

\* The call whose turn it is: the first one not done.
Turn(r) == r \in DOMAIN gen /\ \A q \in 1..(r - 1) : gen[q].pc = "done"

NextDet ==
  \/ \E r \in DOMAIN gen : Turn(r) /\ generateRoundLayout(r)
  \/ \E r \in DOMAIN gen : Turn(r) /\ CenterAttempt(r)
  \/ \E r \in DOMAIN gen : Turn(r) /\ CenterFallback(r)
  \/ \E r \in DOMAIN gen : Turn(r) /\ StrictAttempt(r)
  \/ \E r \in DOMAIN gen : Turn(r) /\ RelaxedAttempt(r)
  \/ \E r \in DOMAIN gen : Turn(r) /\ FallbackPlace(r)

SpecDet == InitDet /\ [][NextDet]_vars

\* The simulator started at the configured position, in either boundary
\* mode.
InitPhysics ==
  /\ GenIdle /\ now = 0 /\ RoundIdle
  /\ agent = StartPose
  /\ wrapBoundaries \in BOOLEAN
  /\ ticks = 0
  /\ \E hasCollisionCheck \in BOOLEAN : sim = SimStarted(hasCollisionCheck)
  /\ MazeIdle
  /\ PrngIdle
  /\ StatsIdle

NextPhysics ==
  \/ AgentFrame
  \/ reset
  \/ AgentSyncEffect

SpecPhysics == InitPhysics /\ [][NextPhysics]_vars

\* The maze started, the agent at the maze start position.
InitMaze ==
  /\ GenIdle /\ now = 0 /\ RoundIdle
  /\ agent = MazeStart /\ wrapBoundaries = FALSE /\ ticks = 0
  /\ sim = [SimStarted(FALSE) EXCEPT !.agentState = MazeStart]
  /\ MazeIdle
  /\ PrngIdle
  /\ StatsIdle

NextMaze ==
  \/ MazeFrame
  \/ MazeSyncEffect

SpecMaze == InitMaze /\ [][NextMaze]_vars

\* A SeededRandom object just constructed from a seed string.
InitPrng ==
  /\ GenIdle /\ now = 0 /\ RoundIdle
  /\ agent = MazeStart /\ wrapBoundaries = FALSE /\ ticks = 0
  /\ sim = SimStarted(FALSE)
  /\ MazeIdle
  /\ \E str \in PrngSeedStrings : prngSeed = SeededRandomInit(str)
  /\ lastCall = NoCall
  /\ calls = 0
  /\ StatsIdle

NextPrng ==
  \/ next
  \/ nextInt

SpecPrng == InitPrng /\ [][NextPrng]_vars

\* A round as stored: durationMs || 0 and rewardsCollected, no data loaded yet.
InitStats ==
  /\ GenIdle /\ now = 0 /\ RoundIdle
  /\ agent = MazeStart /\ wrapBoundaries = FALSE /\ ticks = 0
  /\ sim = SimStarted(FALSE)
  /\ MazeIdle
  /\ PrngIdle
  /\ \E d \in {0, 5000}, n \in {0, N_REWARDS} :
       statsCall = [movements |-> <<>>, events |-> <<>>, durationMs |-> d,
                    rewardsCollected |-> n]
  /\ roundStats = <<>>

NextStats ==
  \/ addMovement
  \/ addEvent
  \/ roundStatsMemo

SpecStats == InitStats /\ [][NextStats]_vars


(***************************************************************************)
(* Properties of the layout generator.                                     *)
(***************************************************************************)
\* C1: for every condition and every sequence of PRNG outputs, a finished
\* generateRoundLayout call returns exactly N_REWARDS rewards, and no call
\* ever holds more than N_REWARDS.
C1_ExactlyNRewards ==
  \A r \in DOMAIN gen :
    /\ Len(gen[r].rewards) <= N_REWARDS
    /\ gen[r].pc = "done" => Len(RoundLayout(gen[r]).rewards) = N_REWARDS

\* A call that exhausted its attempt budget and was completed by the final
\* fallback.
C1_Witness ==
  \E r \in DOMAIN gen :
    /\ gen[r].pc = "done"
    /\ gen[r].totalAttempts >= MaxTotalAttempts(gen[r].cond)
    /\ Len(gen[r].rewards) = N_REWARDS

C13_PairwiseFinalSpacing ==
  \A r \in DOMAIN gen :
    (gen[r].pc = "done" /\ IsStructured(gen[r].cond)) =>
      \A i, j \in 1..Len(gen[r].rewards) :
        i # j => AtLeastSpacing(DistSq(gen[r].rewards[i], gen[r].rewards[j]),
                                gen[r].currentSpacing, gen[r].cond)


\* C14: a finished structured layout holds exactly k centers, k being the
\* configured count or a drawn value in [CLUSTER_K_MIN, CLUSTER_K_MAX], every
\* two distinct centers are at distance >= the minimum separation, and every
\* center is at least edge margin + cluster radius away from each canvas edge.
C14_CentersSeparated ==
  \A r \in DOMAIN gen :
    (gen[r].pc = "done" /\ IsStructured(gen[r].cond)) =>
      LET params == RoundLayout(gen[r]).clusterParams
          cond == gen[r].cond
          inset == IF IsLegacy(cond) THEN CLUSTER_EDGE_MARGIN + CLUSTER_RADIUS
                   ELSE CONCENTRATED_EDGE_MARGIN + CONCENTRATED_CLUSTER_RADIUS
      IN  /\ Len(params.centers) = params.k
          /\ IF IsLegacy(cond)
             THEN CLUSTER_K_MIN <= params.k /\ params.k <= CLUSTER_K_MAX
             ELSE params.k = CONCENTRATED_N_CLUSTERS
          /\ \A i \in 1..Len(params.centers) :
               /\ inset <= params.centers[i].x /\ params.centers[i].x <= CANVAS_SIZE - inset
               /\ inset <= params.centers[i].y /\ params.centers[i].y <= CANVAS_SIZE - inset
          /\ \A i, j \in 1..Len(params.centers) :
               i # j => DistSq(params.centers[i], params.centers[j])
                          >= MinSeparation(cond) * MinSeparation(cond)


\* C15: every reward a generator call holds, whichever tier placed it, has
\* x and y in [margin, CANVAS_SIZE - margin], the margin being the reward
\* edge margin for the structured conditions and the diffuse edge margin for
\* the diffuse ones.
C15_RewardsInsideMargin ==
  \A r \in DOMAIN gen :
    LET cond == gen[r].cond
        margin == CASE cond = "CONCENTRATED" -> REWARD_EDGE_MARGIN
                    [] cond = "CLUSTER" -> LEGACY_REWARD_EDGE_MARGIN
                    [] cond = "DIFFUSE" -> DIFFUSE_EDGE_MARGIN
                    [] OTHER -> NOISE_REWARD_EDGE_MARGIN
    IN  \A i \in 1..Len(gen[r].rewards) :
          /\ margin <= gen[r].rewards[i].x /\ gen[r].rewards[i].x <= CANVAS_SIZE - margin
          /\ margin <= gen[r].rewards[i].y /\ gen[r].rewards[i].y <= CANVAS_SIZE - margin

\* A finished diffuse call completed by the final fallback, with a reward on
\* the margin itself.
C15_Witness ==
  \E r \in DOMAIN gen :
    /\ gen[r].pc = "done" /\ ~IsStructured(gen[r].cond)
    /\ gen[r].totalAttempts >= MaxTotalAttempts(gen[r].cond)
    /\ \E i \in 1..Len(gen[r].rewards) : gen[r].rewards[i].x = DiffuseMargin(gen[r].cond)

\* C16: the reward ids of a layout are 0..N_REWARDS-1 in array order
\* (rewards[i].id = i, counted from 0) and every reward starts uncollected,
\* whichever tier placed it.
C16_IdsInArrayOrder ==
  \A r \in DOMAIN gen :
    /\ \A i \in 1..Len(gen[r].rewards) :
         gen[r].rewards[i].id = i - 1 /\ gen[r].rewards[i].collected = FALSE
    /\ gen[r].pc = "done" =>
         {gen[r].rewards[i].id : i \in 1..Len(gen[r].rewards)} = 0..(N_REWARDS - 1)

\* A finished call with a reward behind a relaxed-tier pass: currentSpacing
\* has been shrunk.
C16_Witness ==
  \E r \in DOMAIN gen :
    /\ gen[r].pc = "done"
    /\ gen[r].currentSpacing # [k |-> 0, floor |-> FALSE]
    /\ gen[r].totalAttempts < MaxTotalAttempts(gen[r].cond)
    /\ Len(gen[r].rewards) = N_REWARDS


(***************************************************************************)
(* Properties of SeededRandom.                                             *)
(***************************************************************************)
\* C17: every call returns v = num / 0x7fffffff with 0 <= v < 1, num being
\* the state the call has just stored.
C17_NextBelowOne ==
  lastCall.op # "none" =>
    /\ lastCall.num = SeedValue(prngSeed)
    /\ 0 <= lastCall.num /\ lastCall.num < LCG_MASK

\* next() was called in the state from which the exact congruential step
\* leads to 0x7fffffff.
C17_Witness ==
  /\ lastCall.op = "next"
  /\ SeedValue(NextSeedExact(lastCall.from)) = LCG_MASK

\* C18: nextInt(min, max) returns r with min <= r <= max.
C18_NextIntInRange ==
  lastCall.op = "nextInt" => (lastCall.min <= lastCall.r /\ lastCall.r <= lastCall.max)

\* nextInt returned the upper end of a range of more than one element.
C18_Witness ==
  /\ lastCall.op = "nextInt"
  /\ lastCall.min < lastCall.max
  /\ lastCall.r = lastCall.max

\* C30: the constructor leaves a state with 1 <= state <= 0x7fffffff for every
\* seed string, the empty one and those whose hash is 0 or -2^31 included.
C30_ConstructedStateInRange ==
  calls = 0 =>
    /\ BigCmp(prngSeed, <<1>>) >= 0
    /\ BigCmp(prngSeed, ToDigits(LCG_MASK)) <= 0


(***************************************************************************)
(* Properties of the statistics.                                           *)
(***************************************************************************)
\* The numbers of a RoundStats.
StatNumbers(stats) ==
  {stats[f] : f \in DOMAIN stats \ {"quadrantDistribution"}}
    \cup {stats.quadrantDistribution[q] : q \in DOMAIN stats.quadrantDistribution}

\* C19: for an empty movement list, whatever the events, durationMs and
\* rewardsCollected, calculateRoundStats returns a structure with every field
\* defined and finite (neither NaN nor an infinity), totalDistance = 0,
\* pathEfficiency = 0, coveragePercent = 0 and 25 in every quadrant.
C19_EmptyStatsDefined ==
  (roundStats # <<>> /\ statsCall.movements = <<>>) =>
    LET stats == roundStats[1]
    IN  /\ DOMAIN stats = DOMAIN createEmptyStats(0, 0)
        /\ \A v \in StatNumbers(stats) : IsFiniteNumber(v)
        /\ stats.totalDistance = Num(0)
        /\ stats.pathEfficiency = Num(0)
        /\ stats.coveragePercent = Num(0)
        /\ stats.quadrantDistribution = [q \in {"NW", "NE", "SW", "SE"} |-> Num(25)]

\* Statistics computed for a round without samples but with a reward event
\* and a non-zero duration.
C19_Witness ==
  /\ roundStats # <<>>
  /\ statsCall.movements = <<>>
  /\ \E i \in DOMAIN statsCall.events : statsCall.events[i].eventType = "reward_hit"
  /\ statsCall.durationMs > 0

\* The maximal runs of idle samples of a sorted list, as <<first, last>>
\* index pairs.
IdleRuns(sorted) ==
  LET idle(i) == sorted[i].velocity < IDLE_VELOCITY_THRESHOLD
  IN  {run \in (1..Len(sorted)) \X (1..Len(sorted)) :
         /\ run[1] <= run[2]
         /\ \A i \in run[1]..run[2] : idle(i)
         /\ run[1] = 1 \/ ~idle(run[1] - 1)
         /\ run[2] = Len(sorted) \/ ~idle(run[2] + 1)}

\* C20: pausesCount is the number of maximal idle runs whose last idle
\* sample is at least the minimum duration after their first idle sample,
\* for runs closed by a moving sample and for a run open at the last sample
\* alike.
C20_PauseIffSpanReachesThreshold ==
  (roundStats # <<>> /\ statsCall.movements # <<>>) =>
    LET sorted == SortByTimestamp(statsCall.movements)
    IN  roundStats[1].pausesCount =
          Num(Cardinality({run \in IdleRuns(sorted) :
                sorted[run[2]].timestampMs - sorted[run[1]].timestampMs
                  >= IDLE_DURATION_THRESHOLD}))


\* The timestamps of the reward hits among the events handed in.
HitTimes == {statsCall.events[i].timestampMs :
               i \in {j \in DOMAIN statsCall.events :
                        statsCall.events[j].eventType = "reward_hit"}}
HitCount == Cardinality({j \in DOMAIN statsCall.events :
                           statsCall.events[j].eventType = "reward_hit"})
Smallest(S) == CHOOSE t \in S : \A u \in S : t <= u
Largest(S) == CHOOSE t \in S : \A u \in S : u <= t
\* v is the number a / b, for b > 0.
IsRatio(v, a, b) == v.den # 0 /\ v.num * b = a * v.den

\* What the reward timings are of the hits handed in: the smallest hit
\* timestamp, and the mean of the gaps between hits consecutive in time,
\* which add up to the largest minus the smallest timestamp.
TimingsAsSpecified(stats) ==
  /\ HitCount > 0 => stats.firstRewardLatency = Num(Smallest(HitTimes))
  /\ HitCount > 1 =>
       IsRatio(stats.meanInterRewardInterval,
               Largest(HitTimes) - Smallest(HitTimes), HitCount - 1)
  /\ HitCount <= 1 => stats.meanInterRewardInterval = Num(0)

\* C21 as stated: for any list of events, in any order, firstRewardLatency is
\* the smallest reward_hit timestamp and meanInterRewardInterval the mean gap
\* between consecutive hits in time order, 0 for at most one hit; events of
\* other types have no effect.
C21_RewardTimings ==
  roundStats # <<>> => TimingsAsSpecified(roundStats[1])

\* C21, amended: the same for every round with at least one movement sample;
\* for a round without samples the timing fields are the defaults,
\* firstRewardLatency = durationMs and meanInterRewardInterval = 0.
C21_RewardTimingsWithSamples ==
  roundStats # <<>> =>
    IF statsCall.movements # <<>> THEN TimingsAsSpecified(roundStats[1])
    ELSE /\ roundStats[1].firstRewardLatency = Num(statsCall.durationMs)
         /\ roundStats[1].meanInterRewardInterval = Num(0)

\* Statistics of a round with samples whose events, out of time order, hold
\* three hits, two of them with the same timestamp.
C21_Witness ==
  /\ roundStats # <<>>
  /\ statsCall.movements # <<>>
  /\ HitCount = 3
  /\ Cardinality(HitTimes) = 2
  /\ statsCall.events[1].timestampMs > statsCall.events[3].timestampMs

\* The rearrangements of a list.
Rearranged(list) ==
  {[i \in DOMAIN list |-> list[f[i]]] : f \in Permutations(DOMAIN list)}
\* The timestamps of the list are pairwise distinct.
DistinctTimestamps(list) ==
  \A i, j \in DOMAIN list : list[i].timestampMs = list[j].timestampMs => i = j

\* C39: calculateRoundStats does not depend on the order of its inputs: for
\* movements with pairwise distinct timestampMs and any events, every
\* rearrangement of the movements, and every rearrangement of the events,
\* gives the same RoundStats.
C39_OrderIndependent ==
  (roundStats # <<>> /\ DistinctTimestamps(statsCall.movements)) =>
    /\ \A movements \in Rearranged(statsCall.movements) :
         calculateRoundStats(movements, statsCall.events, statsCall.durationMs,
                             statsCall.rewardsCollected) = roundStats[1]
    /\ \A statEvents \in Rearranged(statsCall.events) :
         calculateRoundStats(statsCall.movements, statEvents, statsCall.durationMs,
                             statsCall.rewardsCollected) = roundStats[1]

\* Statistics of three samples with distinct timestamps given out of time
\* order, a moving sample first, and of hits given out of time order.
C39_Witness ==
  /\ roundStats # <<>>
  /\ Len(statsCall.movements) = 3
  /\ DistinctTimestamps(statsCall.movements)
  /\ statsCall.movements[1].timestampMs > statsCall.movements[2].timestampMs
  /\ statsCall.movements[1].velocity # statsCall.movements[3].velocity
  /\ Len(statsCall.events) >= 2
  /\ statsCall.events[1].eventType = "reward_hit"
  /\ statsCall.events[2].eventType = "reward_hit"
  /\ statsCall.events[1].timestampMs > statsCall.events[2].timestampMs


(***************************************************************************)
(* Properties of the round component.                                      *)
(***************************************************************************)
IsTerminal(ev) == ev.eventType \in {"timeout", "round_end"}
Count == Cardinality(collectedIds)

RECURSIVE Concat(_)
Concat(seqs) == IF seqs = <<>> THEN <<>> ELSE Head(seqs) \o Concat(Tail(seqs))

\* The samples handed to onSampleBatch or still buffered, in production order.
Samples == Concat(batches) \o sampleBuffer

\* The rewards not yet collected within the hit radius of a position.
InRange(position) ==
  {i \in DOMAIN rewardsRef :
     /\ rewardsRef[i].id \notin collectedIds
     /\ DistSq(position, rewardsRef[i]) <= hitRadius * hitRadius}

\* checkPosition returns early while no round start time is recorded.
Detectable(position) ==
  IF mode = "cursor" /\ (Len(rewardsRef) = 0 \/ roundStartTimeRef = 0) THEN {}
  ELSE InRange(position)

\* The position-update hook of the mode.
detect(e, s, position) ==
  IF mode = "agent" THEN handlePositionUpdate(e, s, position)
  ELSE checkPosition(e, s, position)

\* C3: each round is finalized once: no two terminal events and no two
\* saved Rounds carry the same round index, whatever triggers arrive before
\* the next round index is installed.
C3_FinalizedOnce ==
  /\ \A i, j \in DOMAIN rounds :
       i # j => rounds[i].roundIndex # rounds[j].roundIndex
  /\ \A i, j \in DOMAIN events :
       (i # j /\ IsTerminal(events[i]) /\ IsTerminal(events[j]))
       => events[i].roundIndex # events[j].roundIndex

C6_CountMonotone ==
  [][/\ Cardinality(collectedIds') <= N_REWARDS
     /\ \/ collectedIds \subseteq collectedIds'
        \/ collectedIds' = {} /\ st'.roundIndex # st.roundIndex]_vars

\* A second round in which the count, reset by the initialisation, has
\* risen again.
C6_Witness ==
  /\ st.roundIndex = 1
  /\ collectedIds # {}
  /\ \E i \in DOMAIN events :
       events[i].eventType = "reward_hit" /\ events[i].roundIndex = 0

\* C7: the all-collected callback has been invoked exactly once when the
\* count has reached N_REWARDS, and not at all while the count is below.
C7_AllCollectedOnce ==
  allCollectedCalls = (IF Count >= N_REWARDS THEN 1 ELSE 0)

\* All rewards collected and notified, the round finalized for that reason.
C7_Witness ==
  /\ allCollectedCalls = 1
  /\ Count = N_REWARDS
  /\ \E i \in DOMAIN rounds :
       rounds[i].endReason = "all_rewards" /\ rounds[i].roundIndex = st.roundIndex

\* C8: per round the events are causally ordered: round_start precedes
\* every reward_hit, and no event follows the terminal event.
C8_CausalOrder ==
  \A j \in DOMAIN events :
    /\ events[j].eventType = "reward_hit" =>
         \E i \in 1..(j - 1) :
           /\ events[i].eventType = "round_start"
           /\ events[i].roundIndex = events[j].roundIndex
    /\ \A i \in 1..(j - 1) :
         events[i].roundIndex = events[j].roundIndex => ~IsTerminal(events[i])

C10_TimestampsMonotone ==
  /\ \A j \in DOMAIN events :
       /\ events[j].timestampMs >= 0
       /\ \A i \in 1..(j - 1) :
            events[i].roundIndex = events[j].roundIndex
            => events[i].timestampMs <= events[j].timestampMs
  /\ \A j \in DOMAIN Samples :
       /\ Samples[j].timestampMs >= 0
       /\ \A i \in 1..(j - 1) :
            Samples[i].roundIndex = Samples[j].roundIndex
            => Samples[i].timestampMs <= Samples[j].timestampMs

\* C23: a step that finalizes a round saves one Round and one terminal event
\* with the same count; finalized by the all-collected notification they are
\* all_rewards / round_end with rewardsCollected = N_REWARDS, finalized by
\* the timer they are timeout / timeout with rewardsCollected = the size of
\* the collected-id set at that moment.
C23_FinalizationRecord ==
  [][Len(rounds') > Len(rounds) =>
       LET round == rounds'[Len(rounds')]
           endEvent == events'[Len(events')]
       IN  /\ Len(rounds') = Len(rounds) + 1
           /\ endEvent.roundIndex = round.roundIndex
           /\ endEvent.totalRewardsCollected = round.rewardsCollected
           /\ IF allCollectedCalls' # allCollectedCalls
              THEN /\ round.endReason = "all_rewards"
                   /\ endEvent.eventType = "round_end"
                   /\ round.rewardsCollected = N_REWARDS
              ELSE /\ round.endReason = "timeout"
                   /\ endEvent.eventType = "timeout"
                   /\ round.rewardsCollected = Cardinality(collectedIds)
                   /\ collectedIds' = collectedIds]_vars

\* A round finalized by the timer with one reward collected, after a round
\* finalized by the all-collected notification.
C23_Witness ==
  /\ Len(rounds) = 2
  /\ rounds[1].endReason = "all_rewards"
  /\ rounds[2].endReason = "timeout"
  /\ rounds[2].rewardsCollected = 1
  /\ events[Len(events)].eventType = "timeout"

\* C24: once stop() has been called on the round timer, onTimeUp is not
\* invoked until the next start(): an interval tick that was already
\* scheduled delivers no timeout.
C24_NoTimeUpAfterStop == timerLog.timeUp # "late"

\* The round_start events of round r among the first n events.
StartsOf(r, n) ==
  {i \in 1..n : events[i].eventType = "round_start" /\ events[i].roundIndex = r}
\* Every sample created and still held or handed on.
SamplesKept ==
  {sampleBuffer[i] : i \in DOMAIN sampleBuffer}
    \cup UNION {{batches[b][i] : i \in DOMAIN batches[b]} : b \in DOMAIN batches}

\* At most one round_start per round.
RoundStartOnce == \A r \in 0..N_ROUNDS : Cardinality(StartsOf(r, Len(events))) <= 1
\* A reward_hit of a round follows the round_start of that round.
HitsAfterStart ==
  \A i \in DOMAIN events :
    events[i].eventType = "reward_hit" => StartsOf(events[i].roundIndex, i) # {}
\* A sample of a round exists only once the round has its round_start.
SamplesAfterStart ==
  \A sample \in SamplesKept : StartsOf(sample.roundIndex, Len(events)) # {}
\* Until the round on screen has its round_start, during idle and start
\* countdown, the simulator and the round timer are inactive.
InactiveBeforeStart ==
  (mounted /\ StartsOf(st.roundIndex, Len(events)) = {}) => ~isActive(st) /\ ~st.isRunning

\* C25: every round has at most one round_start, written at the expiry of
\* the start countdown and before any reward_hit or sample of that round, also
\* when start is requested repeatedly; before it the simulator and the round
\* timer are inactive.
C25_StartOnceBeforeActivity ==
  /\ RoundStartOnce
  /\ HitsAfterStart
  /\ SamplesAfterStart
  /\ InactiveBeforeStart

\* C32: a second consecutive call of the position hook (checkPosition, or
\* handlePositionUpdate in agent mode) with the same point changes nothing:
\* the collected ids, the events, the saved rounds, the all-collected
\* notifications and the pending state stay as the first call left them,
\* whether the second call belongs to the same render or, in an active
\* round, to one that has committed the state the first call set.
C32_SecondCallChangesNothing ==
  mounted =>
    \A position \in AgentSpots :
      LET first == detect(Env, st, position)
      IN  /\ detect(first, st, position) = first
          /\ isActive(st) => detect(first, first.nx, position) = first

\* The hook ran at a position within the hit radius of a reward and
\* collected it, one reward is left, the round is still active, and the
\* agent or cursor is still there: the next call is a second call with the
\* same point.
C32_Witness ==
  /\ mounted
  /\ isActive(st)
  /\ roundStartTimeRef > 0
  /\ Count = 1
  /\ \E i \in DOMAIN rewardsRef :
       /\ rewardsRef[i].id \in collectedIds
       /\ DistSq(agentRef, rewardsRef[i]) <= hitRadius * hitRadius
  /\ \E ev \in DOMAIN events :
       /\ events[ev].eventType = "reward_hit"
       /\ events[ev].roundIndex = st.roundIndex

\* The reward_hit events of a round, in emission order.
HitsOf(roundIndex) ==
  SelectSeq(events, LAMBDA ev : ev.eventType = "reward_hit" /\ ev.roundIndex = roundIndex)

\* The k-th reward_hit of a round carries totalRewardsCollected = k.
HitsNumbered ==
  \A i \in DOMAIN events :
    events[i].eventType = "reward_hit" =>
      \E k \in 1..Len(HitsOf(events[i].roundIndex)) :
        /\ HitsOf(events[i].roundIndex)[k] = events[i]
        /\ events[i].totalRewardsCollected = k

\* A saved Round counts the reward_hit events its round has emitted.
RoundsCountHits ==
  \A i \in DOMAIN rounds :
    rounds[i].rewardsCollected = Len(HitsOf(rounds[i].roundIndex))

\* C33: in every finalized Round rewardsCollected is the number of
\* reward_hit events emitted for that round, and the k-th reward_hit of a
\* round carries totalRewardsCollected = k, for both end reasons and any
\* interleaving of position updates with the finalization.
C33_ScoreCountsHits == RoundsCountHits /\ HitsNumbered

\* The entries of a persisted reward array with collected = true.
CollectedEntries(rewards) == {i \in DOMAIN rewards : rewards[i].collected}

\* C34: in every finalized Round the number of entries of resourcePositions
\* (rewardPositions in cursor mode) with collected = true equals
\* rewardsCollected, also when the round ends in the call that collected the
\* last reward.
C34_PersistedArrayMatchesScore ==
  \A i \in DOMAIN rounds :
    Cardinality(CollectedEntries(rounds[i].resourcePositions)) = rounds[i].rewardsCollected

\* A terminal event of the round has been emitted.
Finalized(roundIndex) ==
  \E i \in DOMAIN events : IsTerminal(events[i]) /\ events[i].roundIndex = roundIndex

\* C35: after a round's terminal event the activation condition
\* isStarted && !isRoundEnded stays false for that round index, also after
\* the end countdown has reached 0, until the next round is started: neither
\* the state the component has requested nor, once rendered, the state it
\* shows is active on a finalized round.
C35_FinishedRoundStaysInactive ==
  mounted =>
    /\ Finalized(nx.roundIndex) => ~isActive(nx)
    /\ (st = nx /\ Finalized(st.roundIndex)) => ~isActive(st)

\* The step emits round_start.
EmitsRoundStart ==
  /\ Len(events') = Len(events) + 1
  /\ events'[Len(events')].eventType = "round_start"

\* Nothing is collected: no id in the set, none in the rewards state (from
\* which the score shown is taken), no reward of the layout flagged.
NothingCollected ==
  /\ collectedIds = {}
  /\ nx.marked = {}
  /\ \A i \in DOMAIN rewardsRef : ~rewardsRef[i].collected

\* C36: every round begins clean: when round_start is emitted the
\* collected-id set is empty, the score is 0 and every reward of the layout
\* is uncollected, whatever callbacks of the previous round were pending
\* when the round index changed.
C36_RoundBeginsClean == [][EmitsRoundStart => NothingCollected']_vars

\* What one loop iteration of the call uses up: an iteration of a reward
\* spacing loop one of the maxTotalAttempts, an iteration of the final
\* fallback one missing reward, an iteration of the center loop one of the
\* maxAttempts or, when they are used up, the center itself.
IterationProgress ==
  \A r \in DOMAIN gen :
    LET g == gen[r]
        h == gen'[r]
    IN  /\ g.pc \in {"strict", "relaxed"} =>
             /\ h.totalAttempts >= g.totalAttempts + 1
             /\ g.totalAttempts < MaxTotalAttempts(g.cond) + maxAttemptsPerReward
             /\ Len(h.rewards) <= N_REWARDS
        /\ g.pc = "fallback" =>
             /\ Len(h.rewards) = Len(g.rewards) + 1
             /\ Len(h.rewards) <= N_REWARDS
        /\ g.pc = "centers" =>
             \/ Len(h.centers) = Len(g.centers) + 1
             \/ /\ h.centers = g.centers
                /\ g.attempts < maxAttempts
                /\ h.attempts = g.attempts + 1
        /\ g.pc = "done" => h = g

C11_PositionInCanvas ==
  /\ 0 <= agent.x /\ agent.x < CANVAS_SIZE
  /\ 0 <= agent.y /\ agent.y < CANVAS_SIZE

\* The coordinate the move of the last frame aims at, before the boundary
\* policy, along the heading the rotation left.
AimedX == sim.last.rotated.x
            + (CASE sim.last.rotated.heading = 0 -> 1
                 [] sim.last.rotated.heading = 180 -> 0 - 1
                 [] OTHER -> 0) * sim.last.rotated.velocity * sim.last.elapsed
AimedY == sim.last.rotated.y
            - (CASE sim.last.rotated.heading = 90 -> 1
                 [] sim.last.rotated.heading = 270 -> 0 - 1
                 [] OTHER -> 0) * sim.last.rotated.velocity * sim.last.elapsed
Wrapped(aimed) ==
  IF aimed >= CANVAS_SIZE THEN aimed - CANVAS_SIZE
  ELSE IF aimed < 0 THEN aimed + CANVAS_SIZE ELSE aimed

\* C22: with wrap-around boundaries, a frame whose move aims at x >=
\* CANVAS_SIZE puts the agent at x - CANVAS_SIZE, one that aims at x < 0 at
\* x + CANVAS_SIZE, likewise for y; the other coordinate is the aimed one, and
\* the move changes neither heading nor velocity.
C22_WrapReappears ==
  (sim.last.op = "tick" /\ wrapBoundaries) =>
    /\ sim.last.moved.x = Wrapped(AimedX)
    /\ sim.last.moved.y = Wrapped(AimedY)
    /\ sim.last.moved.heading = sim.last.rotated.heading
    /\ sim.last.moved.velocity = sim.last.rotated.velocity

\* A frame in wrap mode that left over the right edge and came back inside
\* the canvas at the same height.
C22_Witness ==
  /\ sim.last.op = "tick" /\ wrapBoundaries
  /\ AimedX >= CANVAS_SIZE
  /\ sim.last.moved.x = AimedX - CANVAS_SIZE
  /\ sim.last.moved.x < CANVAS_SIZE
  /\ sim.last.moved.y = sim.last.rotated.y
  /\ agent = sim.last.moved

\* The samples created so far are at least SAMPLE_INTERVAL apart, the first
\* one at least that long after activation.
SamplesSpaced ==
  \A i \in DOMAIN sim.samples :
    sim.samples[i] - (IF i = 1 THEN ActivationTime ELSE sim.samples[i - 1])
      >= SAMPLE_INTERVAL_MS

\* C26: a frame creates a sample only if at least SAMPLE_INTERVAL ms have
\* passed since the previous sample or since activation, so two consecutive
\* samples are at least SAMPLE_INTERVAL apart at any frame rate and whatever
\* reset() calls are made while the simulator is active.
C26_SamplesSpaced == SamplesSpaced

\* The same for a simulator on which reset() was not called.
SamplesSpacedWithoutReset == sim.resets = 0 => SamplesSpaced

\* C27: with a collisionCheck supplied, onCollision is called, and the agent
\* put back to the start pose, exactly in the frames whose moved pose collides
\* while the in-collision flag is clear, once per such frame; a colliding
\* frame with the flag set calls nothing; the flag is cleared only by a frame
\* whose moved pose does not collide or by reset().
C27_CollisionEdgeTriggered ==
  [][sim.hasCollisionCheck =>
       LET frame == ticks' = ticks + 1
           colliding == collisionCheck(sim'.last.moved)
           called == Len(sim'.collisions) - Len(sim.collisions)
       IN  /\ called = (IF frame /\ colliding /\ ~sim.isInCollisionRef THEN 1 ELSE 0)
           /\ called = 1 =>
                /\ sim'.collisions[Len(sim'.collisions)] = sim'.last.moved
                /\ agent' = StartPose
                /\ sim'.isInCollisionRef
           /\ (frame /\ colliding) => sim'.isInCollisionRef
           /\ (sim.isInCollisionRef /\ ~sim'.isInCollisionRef) =>
                \/ frame /\ ~colliding
                \/ sim'.resets = sim.resets + 1]_vars

\* A frame that collides while the flag of an earlier collision is still
\* set: one onCollision call so far, and the agent is left where it moved.
C27_Witness ==
  /\ sim.hasCollisionCheck
  /\ sim.last.op = "tick"
  /\ collisionCheck(sim.last.moved)
  /\ sim.last.wasInCollision
  /\ sim.isInCollisionRef
  /\ Len(sim.collisions) = 1
  /\ agent = sim.last.moved

\* In the frame of a new collision the pose written to agentRef and handed
\* to onPositionUpdate is the start pose, which does not collide.
NewCollisionHandsStartPose ==
  (sim.hasCollisionCheck /\ sim.last.op = "tick"
     /\ collisionCheck(sim.last.moved) /\ ~sim.last.wasInCollision) =>
    /\ sim.last.received = StartPose
    /\ ~collisionCheck(sim.last.received)
    /\ agent = StartPose

\* From the frame of a new collision until the next frame, agentRef holds
\* the start pose: the next frame moves from it.
NextFrameFromStart == sim.collisionFrame => agent = StartPose

\* C28: in the frame of a new collision the agent is replaced by the start
\* pose before agentRef is written and onPositionUpdate is called, so the
\* callback gets no colliding pose and the next frame moves from the start
\* pose.
C28_AtomicResetOnCollision == NewCollisionHandsStartPose /\ NextFrameFromStart

\* The batches handed to onSampleBatch are non-empty and hold at most
\* batchSize samples.
BatchesSized ==
  \A i \in DOMAIN sim.delivered :
    Len(sim.delivered[i]) >= 1 /\ Len(sim.delivered[i]) <= simBatchSize
\* The samples handed over so far, followed by the samples still buffered,
\* are the samples produced, in production order.
NoSampleLostOrRepeated == Concat(sim.delivered) \o sim.sampleBuffer = sim.samples

\* C37: every movement sample produced is passed to onSampleBatch exactly
\* once and in production order over any sequence of frames, batch-size
\* flushes and reset() calls: none is lost, none is delivered twice, and every
\* batch is non-empty and holds at most batchSize samples.
C37_SamplesDeliveredOnce == BatchesSized /\ NoSampleLostOrRepeated

\* The cells of the G x G partition of the canvas and the samples in them.
GridCells == (0 .. GRID_SIZE - 1) \X (0 .. GRID_SIZE - 1)
InCell(m, cell) ==
  LET cellSize == CANVAS_SIZE \div GRID_SIZE
  IN  /\ cell[1] * cellSize <= m.x /\ m.x < (cell[1] + 1) * cellSize
      /\ cell[2] * cellSize <= m.y /\ m.y < (cell[2] + 1) * cellSize
CellsWithSample(movements) ==
  {cell \in GridCells : \E i \in 1..Len(movements) : InCell(movements[i], cell)}

\* coveragePercent and revisitRate are the ratios over the visited cells of
\* the partition, and coveragePercent is within [0, 100].
CoverageAsSpecified(movements) ==
  LET c == calculateCoverage(movements)
      visited == Cardinality(CellsWithSample(movements))
  IN  /\ c.coveragePercent = Quot(100 * visited, GRID_SIZE * GRID_SIZE)
      /\ c.coveragePercent.num >= 0
      /\ c.coveragePercent.num <= 100 * c.coveragePercent.den
      /\ c.revisitRate = IF visited = 0 THEN Num(0) ELSE Quot(Len(movements), visited)

SamplesInGrid(movements) ==
  \A i \in 1..Len(movements) : \E cell \in GridCells : InCell(movements[i], cell)

\* For sample lists that lie in the canvas the coverage is as specified.
CoverageOfSamplesInCanvas ==
  SamplesInGrid(sim.recorded) => CoverageAsSpecified(sim.recorded)

\* C31: for every sample list the simulator records, every sample falls in
\* a cell of the G x G partition, coveragePercent is 100 times the number of
\* distinct cells holding a sample over G^2 and lies in [0, 100], and
\* revisitRate is the number of samples over the number of visited cells,
\* 0 when no cell is visited.
C31_CoverageOverGrid ==
  /\ SamplesInGrid(sim.recorded)
  /\ CoverageAsSpecified(sim.recorded)

(***************************************************************************)
(* Properties of the maze.                                                 *)
(***************************************************************************)
\* The closed segment from p to q and the closed rectangle share a point:
\* their extents overlap on both axes and the corners of the rectangle are
\* not all strictly on one side of the line through p and q.
Side(p, q, cx, cy) == (q.x - p.x) * (cy - p.y) - (q.y - p.y) * (cx - p.x)
SegmentMeetsRect(p, q, wall) ==
  LET corners == {<<wall.x, wall.y>>, <<wall.x + wall.width, wall.y>>,
                  <<wall.x, wall.y + wall.height>>,
                  <<wall.x + wall.width, wall.y + wall.height>>}
  IN  /\ Max(p.x, q.x) >= wall.x /\ Min(p.x, q.x) <= wall.x + wall.width
      /\ Max(p.y, q.y) >= wall.y /\ Min(p.y, q.y) <= wall.y + wall.height
      /\ \E c \in corners : Side(p, q, c[1], c[2]) >= 0
      /\ \E c \in corners : Side(p, q, c[1], c[2]) <= 0

\* C12: no tunneling: a frame that is not handled as a maze collision has
\* moved the agent along a segment that meets no wall; and for every wall
\* and every pair of positions the swept test answers exactly whether the
\* segment meets the wall.
C12_NoTunneling ==
  [][/\ (ticks' # ticks /\ collisionCount' = collisionCount) =>
          \A wall \in generateMazeWalls :
            ~SegmentMeetsRect(prevPositionRef, PositionOf(agent'), wall)
     /\ \A moved \in MazePositions, wall \in generateMazeWalls :
          lineIntersectsRect(prevPositionRef.x, prevPositionRef.y, moved.x, moved.y,
                             wall.x, wall.y, wall.width, wall.height)
          <=> SegmentMeetsRect(prevPositionRef, moved, wall)]_vars

\* A collision was recorded for a pose that the point test accepts: the
\* segment jumped over a wall.
C12_Witness ==
  \E i \in DOMAIN mazeEvents :
    /\ mazeEvents[i].eventType = "maze_collision"
    /\ ~checkWallCollision(mazeEvents[i].agentPosition)

\* A maze frame that finds a collision emits one maze_collision event and
\* adds one to the collision counter.
CollisionCountedOnce ==
  (ticks' # ticks /\ sim'.collisionFrame) =>
    /\ collisionCount' = collisionCount + 1
    /\ Len(mazeEvents') = Len(mazeEvents) + 1
    /\ mazeEvents'[Len(mazeEvents')].eventType = "maze_collision"
\* The frame that follows a collision frame reads the maze start pose from
\* agentRef.current.
FrameAfterCollisionFromStart ==
  (ticks' # ticks /\ sim.collisionFrame) => agent = MazeStart

\* C38: after handlePositionUpdate detects a wall collision and calls
\* resetAgent, the next frame computes its move from the maze start pose:
\* the reset is not overwritten by the sample-rate setAgent of the colliding
\* pose and the effect that copies the agent state to agentRef, and the
\* contact gives one maze_collision event and one increment of the counter.
C38_ResetSurvivesCollision ==
  [][CollisionCountedOnce /\ FrameAfterCollisionFromStart]_vars

=============================================================================
